---------------------------- MODULE Spec2Model ----------------------------
(* Batch update processor of the Salesforce updater scripts.               *)
(* One behaviour is one workflow: an initial authenticate call, then one   *)
(* batch run (processUpdates or processWorkOrderUpdates) on an updater.    *)
(* An HTTP exchange is one step: a request is issued by the code that runs *)
(* up to the await, and its response resumes the code up to the next one.  *)
EXTENDS Integers, Sequences, FiniteSets, TLC

\* ------------------------------------------------------------------ bounds
MaxLen == 2
MaxBatch == 2
MaxCalls == 1
MaxField == 3
MaxRows == 2
MaxAuthCalls == 2
MaxPauses == 3
MaxCallbacks == 3
MaxRuns == 2
MaxNumber == 3

\* --------------------------------------------------------------- constants
Absent == "undefined"
NoToken == 0
DefaultDelayMs == 100

Min(a, b) == IF a < b THEN a ELSE b

\* ---------------------------------------------------------------- workflows
\* orchestrator: main-example.js, basic updater, updater.initialize()
\* cloud:        cloud/index.js handlers, JWT authenticate, basic updater
\* direct:       JWT authenticate, enhanced updater, processUpdates
\* vimeo:        JWT authenticate, enhanced updater, processWorkOrderUpdates
Workflows == {"orchestrator", "cloud", "direct", "vimeo"}

\* the auth instance on which the workflow calls authenticate() first
InitialAuth(w) == IF w = "orchestrator" THEN "pwd" ELSE "jwt"

\* the auth instance the updater holds in this.auth: the basic updater
\* builds its own SalesforceAuth from the constructor argument, the enhanced
\* one keeps the instance it is given
UpdaterAuth(w) == IF w \in {"orchestrator", "cloud"} THEN "pwd" ELSE "jwt"

\* the per-item operation the batch loop maps over the group
ItemOp(w) == IF w = "vimeo" THEN "updateWorkOrderByNumber" ELSE "updateRecord"

\* ----------------------------------------------------------------- requests
RecordRequest(r, u, m) ==
  [objectType |-> "Account", recordId |-> r, workOrderNumber |-> Absent,
   updateData |-> u, metadata |-> m]

WorkOrderRequest(n, u, m) ==
  [objectType |-> Absent, recordId |-> Absent, workOrderNumber |-> n,
   updateData |-> u, metadata |-> m]

\* the k-th request of an input list: two distinct requests in turn, the
\* second without metadata; a list of three or more requests names the same
\* record twice
RequestAt(w, k) ==
  IF w = "vimeo"
  THEN IF k % 2 = 1 THEN WorkOrderRequest("WO-001", "Status=Complete", "source=vimeo_export")
       ELSE WorkOrderRequest("WO-002", "Status=In Progress", Absent)
  ELSE IF k % 2 = 1 THEN RecordRequest("001xx", "Name=Acme", "source=keyValuePairs")
       ELSE RecordRequest("001yy", "Phone=555-0001", Absent)

UpdateLists(w) == { [k \in 1..n |-> RequestAt(w, k)] : n \in 0..MaxLen }

\* the Id of the record a work order number resolves to
IdOf(n) == IF n = "WO-001" THEN "a0X1" ELSE "a0X2"

\* ------------------------------------------------------------------- errors
\* an error as the catch blocks read it: error.response?.status,
\* error.response?.data, error.message
HttpError(status, data) ==
  [response |-> TRUE, status |-> status, data |-> data, message |-> "Request failed"]
PlainError(message) ==
  [response |-> FALSE, status |-> Absent, data |-> Absent, message |-> message]
NoError == PlainError("")

TokenResponses == {"ok", "empty", "http", "noresp"}
PatchResponses == {"ok", "http", "noresp"}
QueryResponses == {"found", "none", "http", "noresp"}

VARIABLES
  wf,                 \* the workflow of this behaviour
  updateList,         \* the list handed to the batch operation
  batchSize, delayMs, \* its options
  pc,                 \* position of the workflow
  i,                  \* loop index of the batch loop (0-based, as in the code)
  auth,               \* accessToken / instanceUrl of the two auth instances
  task,               \* per request: position of its update call
  successfulUpdates, failedUpdates,
  result,             \* the value the batch operation returned
  tokenReqs,          \* token requests sent so far
  tokensGranted,      \* tokens granted so far; token n is the n-th grant
  initialToken,       \* the token the initial authenticate call obtained
  initialResp,        \* the token response the initial authenticate call received
  probeFailed,        \* some session probe has reported the session invalid
  patches,            \* PATCH requests sent: index of the request and bearer
  queries,            \* lookup queries sent: index of the request and bearer
  pauses,             \* calls of delay() the current batch run has made
  stats,              \* the value the last getStats() call returned
  privateKey,         \* the private key the JWT instance is configured with
  authCall,           \* the authenticate call made on an instance by itself
  csvPc,              \* position of the CSV pipeline
  value,              \* the field handed to escapeCSVValue
  data, columns,      \* the arguments of arrayToCSV
  content,            \* the CSV text written
  values,             \* what the reader returned
  request,            \* the HTTP request an update handler received
  handlerPc,          \* position of the handler
  responses,          \* the responses the handler has sent, in order
  thrown,             \* the step whose error reached the handler's catch block
  credentials,        \* the credential configuration the handler validated
  flow,               \* the run of a Vimeo workflow script
  interactive,        \* the authenticateInteractive call: promise, listener, timer
  runs,               \* the batch runs started on one updater instance
  lookup              \* a lookupWorkOrderByNumber call: the number and its query

vars == <<wf, updateList, batchSize, delayMs, pc, i, auth, task,
          successfulUpdates, failedUpdates, result, tokenReqs, tokensGranted,
          initialToken, initialResp, probeFailed, patches, queries,
          pauses, stats, privateKey, authCall,
          csvPc, value, data, columns, content, values,
          request, handlerPc, responses, thrown, credentials, flow,
          interactive, runs, lookup>>

\* the state of the updater, of the CSV pipeline and of the HTTP handler
csvVars == <<csvPc, value, data, columns, content, values>>
httpVars == <<request, handlerPc, responses, thrown, credentials>>
updaterVars == <<wf, updateList, batchSize, delayMs, pc, i, auth, task,
                 successfulUpdates, failedUpdates, result, tokenReqs, tokensGranted,
                 initialToken, initialResp, probeFailed, patches, queries,
                 pauses, stats, privateKey, authCall>>

N == Len(updateList)
A == UpdaterAuth(wf)

\* ----------------------------------------------------------------- authenticate
\* authenticate() on receiving the token response: the new fields of the
\* instance, whether the call throws, and the error thrown
\* variant: the tokens are returned without being stored on the instance
AuthenticatePwdNotStored(resp, tok) ==
  CASE resp = "ok"    -> [auth |-> [accessToken |-> tok, instanceUrl |-> "url"],
                          set |-> FALSE, threw |-> FALSE, err |-> NoError]
    [] resp = "empty" -> [auth |-> [accessToken |-> NoToken, instanceUrl |-> Absent],
                          set |-> FALSE, threw |-> FALSE, err |-> NoError]
    [] OTHER          -> [auth |-> [accessToken |-> NoToken, instanceUrl |-> Absent],
                          set |-> FALSE, threw |-> TRUE,
                          err |-> PlainError("Authentication failed")]

AuthenticatePwd(resp, tok) ==
  CASE resp = "ok"    -> [auth |-> [accessToken |-> tok, instanceUrl |-> "url"],
                          set |-> TRUE, threw |-> FALSE, err |-> NoError]
    [] resp = "empty" -> [auth |-> [accessToken |-> NoToken, instanceUrl |-> Absent],
                          set |-> TRUE, threw |-> FALSE, err |-> NoError]
    [] OTHER          -> [auth |-> [accessToken |-> NoToken, instanceUrl |-> Absent],
                          set |-> FALSE, threw |-> TRUE,
                          err |-> PlainError("Authentication failed")]

AuthenticateJWT(resp, tok) ==
  CASE resp = "ok"    -> [auth |-> [accessToken |-> tok, instanceUrl |-> "url"],
                          set |-> TRUE, threw |-> FALSE, err |-> NoError]
    [] resp = "empty" -> [auth |-> [accessToken |-> NoToken, instanceUrl |-> Absent],
                          set |-> TRUE, threw |-> TRUE,
                          err |-> PlainError("TypeError")]
    [] resp = "http"  -> [auth |-> [accessToken |-> NoToken, instanceUrl |-> Absent],
                          set |-> FALSE, threw |-> TRUE,
                          err |-> HttpError("400", "invalid_grant")]
    [] OTHER          -> [auth |-> [accessToken |-> NoToken, instanceUrl |-> Absent],
                          set |-> FALSE, threw |-> TRUE,
                          err |-> PlainError("Network Error")]

\* exchangeCodeForToken(code) of the web server flow
AuthenticateWeb(resp, tok) ==
  CASE resp = "ok"    -> [auth |-> [accessToken |-> tok, instanceUrl |-> "url"],
                          set |-> TRUE, threw |-> FALSE, err |-> NoError]
    [] resp = "empty" -> [auth |-> [accessToken |-> NoToken, instanceUrl |-> Absent],
                          set |-> TRUE, threw |-> FALSE, err |-> NoError]
    [] resp = "http"  -> [auth |-> [accessToken |-> NoToken, instanceUrl |-> Absent],
                          set |-> FALSE, threw |-> TRUE,
                          err |-> HttpError("400", "invalid_grant")]
    [] OTHER          -> [auth |-> [accessToken |-> NoToken, instanceUrl |-> Absent],
                          set |-> FALSE, threw |-> TRUE,
                          err |-> PlainError("Network Error")]

\* variant: a failed token request is swallowed instead of thrown
authenticateSwallows(inst, resp, tok) ==
  LET r == IF inst = "pwd" THEN AuthenticatePwd(resp, tok) ELSE AuthenticateJWT(resp, tok)
  IN [r EXCEPT !.threw = FALSE]

authenticate(inst, resp, tok) ==
  CASE inst = "pwd" -> AuthenticatePwd(resp, tok)
    [] inst = "web" -> AuthenticateWeb(resp, tok)
    [] OTHER        -> AuthenticateJWT(resp, tok)

\* createJWT() -> getPrivateKey() throws when the instance has no key, before
\* any request is sent
createJWTThrows(inst, key) == inst = "jwt" /\ key = Absent

\* no authenticate call has been made on an instance by itself
NoCall == [st |-> "idle"]

\* the instance after the call
AuthAfter(inst, r) == IF r.set THEN [auth EXCEPT ![inst] = r.auth] ELSE auth

\* validateSession() before its probe: false at once without a token or URL
HasSession(a) == a.accessToken # NoToken /\ a.instanceUrl # Absent

\* getAuthHeaders() throws without an access token
getAuthHeadersThrows(a) == a.accessToken = NoToken


\* ------------------------------------------------------------------ outcomes
\* idx is the position of the request in updateList: it stands for the
\* identity of the request object the outcome echoes
\* the default parameter metadata = {} of the update calls
MetadataOf(req) == IF req.metadata = Absent THEN "{}" ELSE req.metadata

Outcome(k, success, won, rid, otype, req, error, status) ==
  [idx |-> k, success |-> success, workOrderNumber |-> won, recordId |-> rid,
   objectType |-> otype, updateData |-> req.updateData,
   metadata |-> MetadataOf(req), error |-> error, status |-> status]

\* what one update call does when it settles: the list it pushes to, the
\* outcome, and whether its promise rejects instead of resolving
Completion(list, outcome) == [rejects |-> FALSE, list |-> list, outcome |-> outcome]

\* variant: the success outcome does not carry the status of the response
updateRecordResultNoStatus(k, req, status) ==
  Completion("successful",
    Outcome(k, TRUE, Absent, req.recordId, req.objectType, req, Absent, Absent))

\* updateRecord, the success path
updateRecordResult(k, req, status) ==
  Completion("successful",
    Outcome(k, TRUE, Absent, req.recordId, req.objectType, req, Absent, status))

\* variant: the catch block records the failure and rethrows
updateRecordCatchRethrows(k, req, err) ==
  [rejects |-> TRUE, list |-> "failed",
   outcome |-> Outcome(k, FALSE, Absent, req.recordId, req.objectType, req,
                       IF err.response THEN err.data ELSE err.message,
                       IF err.response THEN err.status ELSE "UNKNOWN")]

\* variant: the status has no 'UNKNOWN' fallback
updateRecordCatchNoFallback(k, req, err) ==
  Completion("failed",
    Outcome(k, FALSE, Absent, req.recordId, req.objectType, req,
            IF err.response THEN err.data ELSE err.message,
            IF err.response THEN err.status ELSE Absent))

\* updateRecord, the catch block
updateRecordCatch(k, req, err) ==
  Completion("failed",
    Outcome(k, FALSE, Absent, req.recordId, req.objectType, req,
            IF err.response THEN err.data ELSE err.message,
            IF err.response THEN err.status ELSE "UNKNOWN"))

\* variant: the null check is missing, reading workOrder.Id throws into the
\* catch block
updateWorkOrderNotFoundUnchecked(k, req) ==
  Completion("failed",
    Outcome(k, FALSE, req.workOrderNumber, "null", "Work_Order__c", req,
            "TypeError", "ERROR"))

\* updateWorkOrderByNumber, the lookup returned null
updateWorkOrderNotFound(k, req) ==
  Completion("failed",
    Outcome(k, FALSE, req.workOrderNumber, "null", "Work_Order__c", req,
            "Work Order not found", "NOT_FOUND"))

\* updateWorkOrderByNumber, the catch block
updateWorkOrderCatch(k, req, err) ==
  Completion("failed",
    Outcome(k, FALSE, req.workOrderNumber, "null", "Work_Order__c", req,
            IF err.response THEN err.data ELSE err.message,
            IF err.response THEN err.status ELSE "ERROR"))

\* updateWorkOrderByNumber, the lookup returned a record: the argument list
\* of the updateRecord call reads the undeclared identifier
\* Related_Project__r, which throws a ReferenceError into the catch block
\* before updateRecord is entered
updateWorkOrderFound(k, req, workOrder) ==
  updateWorkOrderCatch(k, req, PlainError("Related_Project__r is not defined"))

\* the catch block of the per-item operation of the workflow
ItemCatch(k, req, err) ==
  IF ItemOp(wf) = "updateRecord" THEN updateRecordCatch(k, req, err)
  ELSE updateWorkOrderCatch(k, req, err)

\* variant: the call starts a new list for its outcome
pushReset(list, x) == << x >>

\* variant: the push writes over the last element
pushOverwrites(list, x) ==
  IF Len(list) = 0 THEN << x >> ELSE [list EXCEPT ![Len(list)] = x]

\* Array.prototype.push on an outcome list
push(list, x) == Append(list, x)

\* ------------------------------------------------------------------- results
\* ((successful / total) * 100).toFixed(2): hundredths of a percent, NaN for 0/0
SuccessRate(s, n) ==
  IF n = 0 THEN [nan |-> TRUE, hundredths |-> 0]
  ELSE [nan |-> FALSE, hundredths |-> (s * 20000 + n) \div (2 * n)]

\* variant: the result counts the recorded outcomes instead of the requests
\* and leaves the failures out of the count
ResultsOfSuccesses(su, fu) ==
  [totalProcessed |-> Len(su), successful |-> Len(su), failed |-> Len(fu),
   successfulUpdates |-> su, failedUpdates |-> fu,
   successRate |-> SuccessRate(Len(su), Len(su))]

Results(su, fu) ==
  [totalProcessed |-> N, successful |-> Len(su), failed |-> Len(fu),
   successfulUpdates |-> su, failedUpdates |-> fu,
   successRate |-> SuccessRate(Len(su), N)]

NoResult == [totalProcessed |-> -1]

\* getStats(): the counts of the two lists and the success rate, '0%' when
\* both lists are empty
getStats(su, fu) ==
  [totalProcessed |-> Len(su) + Len(fu), successful |-> Len(su), failed |-> Len(fu),
   successRate |-> IF Len(su) > 0 \/ Len(fu) > 0 THEN SuccessRate(Len(su), Len(su) + Len(fu))
                   ELSE [nan |-> FALSE, hundredths |-> 0]]

NoStats == [totalProcessed |-> -1]

\* ----------------------------------------------------------------- CSV text
\* a string is the sequence of its characters
Comma == ","
Quote == "\""
LF == "\n"
CR == "\r"
Space == " "
Chars == {"a", Comma, Quote, LF, CR, Space}
Strings(n) == UNION { [1..m -> Chars] : m \in 0..n }

\* String.prototype.includes for one character
includes(s, c) == \E j \in 1..Len(s) : s[j] = c

\* value.replace(/"/g, '""')
RECURSIVE DoubleQuotes(_)
DoubleQuotes(s) ==
  IF s = << >> THEN << >>
  ELSE (IF Head(s) = Quote THEN <<Quote, Quote>> ELSE <<Head(s)>>) \o DoubleQuotes(Tail(s))

\* variant: the field is wrapped without doubling its quotes
escapeCSVValueNoDoubling(v) ==
  IF includes(v, Comma) \/ includes(v, Quote) \/ includes(v, LF) \/ includes(v, CR)
  THEN <<Quote>> \o v \o <<Quote>>
  ELSE v

escapeCSVValue(v) ==
  IF includes(v, Comma) \/ includes(v, Quote) \/ includes(v, LF) \/ includes(v, CR)
  THEN <<Quote>> \o DoubleQuotes(v) \o <<Quote>>
  ELSE v

\* String.prototype.trim: white space off both ends
WhiteSpace == {Space, LF, CR}
RECURSIVE trimStart(_)
trimStart(s) ==
  IF s # << >> /\ Head(s) \in WhiteSpace THEN trimStart(Tail(s)) ELSE s
RECURSIVE trimEnd(_)
trimEnd(s) ==
  IF s # << >> /\ s[Len(s)] \in WhiteSpace THEN trimEnd(SubSeq(s, 1, Len(s) - 1)) ELSE s
trim(s) == trimEnd(trimStart(s))

\* String.prototype.split for a one-character separator: cur is the piece
\* being read
RECURSIVE splitFrom(_, _, _)
splitFrom(s, sep, cur) ==
  IF s = << >> THEN << cur >>
  ELSE IF Head(s) = sep THEN << cur >> \o splitFrom(Tail(s), sep, << >>)
  ELSE splitFrom(Tail(s), sep, Append(cur, Head(s)))
split(s, sep) == splitFrom(s, sep, << >>)

\* Array.prototype.join for a one-character separator
RECURSIVE join(_, _)
join(parts, sep) ==
  IF parts = << >> THEN << >>
  ELSE IF Len(parts) = 1 THEN parts[1]
  ELSE parts[1] \o <<sep>> \o join(Tail(parts), sep)

\* parseCSVLine: the loop from index j (from 1) with the locals current,
\* inQuotes and values
RECURSIVE parseCSVLineFrom(_, _, _, _, _)
parseCSVLineFrom(line, j, current, inQuotes, vals) ==
  IF j > Len(line) THEN Append(vals, trim(current))
  ELSE IF line[j] = Quote
       THEN IF inQuotes /\ j + 1 <= Len(line) /\ line[j + 1] = Quote
            THEN parseCSVLineFrom(line, j + 2, Append(current, Quote), inQuotes, vals)
            ELSE parseCSVLineFrom(line, j + 1, current, ~inQuotes, vals)
  ELSE IF line[j] = Comma /\ ~inQuotes
       THEN parseCSVLineFrom(line, j + 1, << >>, inQuotes, Append(vals, trim(current)))
  ELSE parseCSVLineFrom(line, j + 1, Append(current, line[j]), inQuotes, vals)
parseCSVLine(line) == parseCSVLineFrom(line, 1, << >>, FALSE, << >>)

\* the readers: content.trim().split("\n"), then parseCSVLine line by line
readLines(text) == split(trim(text), LF)
readValues(text) == [ j \in 1..Len(readLines(text)) |-> parseCSVLine(readLines(text)[j]) ]

\* the CSV pipeline is not in use
CsvOff ==
  /\ csvPc = "off"
  /\ value = << >>
  /\ data = << >>
  /\ columns = Absent
  /\ content = << >>
  /\ values = << >>

\* no HTTP handler is in use
NoRequest == [handler |-> Absent]
HttpOff ==
  /\ request = NoRequest
  /\ handlerPc = "off"
  /\ responses = << >>
  /\ thrown = Absent
  /\ credentials = Absent

\* no workflow script is running
NoFlow == [script |-> Absent]
FlowOff == flow = NoFlow

\* no authenticateInteractive call and no batch run on a shared updater
NoInteractive == [promise |-> Absent]
NoRuns == << >>
NoLookup == [pc |-> "off"]
SideOff == interactive = NoInteractive /\ runs = NoRuns /\ lookup = NoLookup

\* ---------------------------------------------------------------------- Init
\* st is the position of the call; reauth, lookup and patched record the
\* responses its token request, lookup query and PATCH request received
NewTask == [st |-> "idle", reauth |-> Absent, lookup |-> Absent, patched |-> Absent]

Init ==
  /\ wf \in Workflows
  /\ updateList \in UpdateLists(wf)
  /\ batchSize \in 1..MaxBatch
  \* delayMs is read only when a further group follows the first one
  /\ delayMs \in IF Len(updateList) > batchSize THEN {0, DefaultDelayMs} ELSE {DefaultDelayMs}
  /\ pc = "start"
  /\ i = 0
  /\ auth = [inst \in {"jwt", "pwd"} |-> [accessToken |-> NoToken, instanceUrl |-> Absent]]
  /\ task = [k \in 1..Len(updateList) |-> NewTask]
  /\ successfulUpdates = << >>
  /\ failedUpdates = << >>
  /\ result = NoResult
  /\ tokenReqs = 0
  /\ tokensGranted = 0
  /\ initialToken = NoToken
  /\ initialResp = Absent
  /\ probeFailed = FALSE
  /\ patches = {}
  /\ queries = {}
  /\ pauses = 0
  /\ stats = NoStats
  \* only the JWT instance is configured with a key
  /\ privateKey \in IF InitialAuth(wf) = "jwt" THEN {"pem", Absent} ELSE {Absent}
  /\ authCall = NoCall
  /\ CsvOff
  /\ HttpOff
  /\ FlowOff
  /\ SideOff
\* ------------------------------------------------------- the initial authenticate
Authenticate ==
  /\ pc = "start"
  /\ IF createJWTThrows(InitialAuth(wf), privateKey)
     THEN pc' = "aborted" /\ tokenReqs' = tokenReqs
     ELSE pc' = "authenticating" /\ tokenReqs' = tokenReqs + 1
  /\ UNCHANGED <<lookup, interactive, runs, flow, httpVars, csvVars, privateKey, authCall, stats, pauses, wf, updateList, batchSize, delayMs, i, auth, task,
                 successfulUpdates, failedUpdates, result, tokensGranted,
                 initialToken, initialResp, probeFailed, patches, queries>>

AuthenticateSettles ==
  /\ pc = "authenticating"
  /\ \E resp \in TokenResponses :
       LET r == authenticate(InitialAuth(wf), resp, tokensGranted + 1) IN
         /\ auth' = AuthAfter(InitialAuth(wf), r)
         /\ tokensGranted' = IF resp = "ok" THEN tokensGranted + 1 ELSE tokensGranted
         /\ initialToken' = IF r.threw THEN NoToken ELSE r.auth.accessToken
         /\ initialResp' = resp
         /\ pc' = IF r.threw THEN "aborted" ELSE "ready"
  /\ UNCHANGED <<lookup, interactive, runs, flow, httpVars, csvVars, privateKey, authCall, stats, pauses, wf, updateList, batchSize, delayMs, i, task,
                 successfulUpdates, failedUpdates, result, tokenReqs,
                 probeFailed, patches, queries>>

\* ------------------------------------------------------------- the batch loop
\* variant: the slice takes the rest of the list
BatchWhole(i0) == (i0 + 1)..N

\* variant: the slice takes one element too many
BatchOffByOne(i0) == (i0 + 1)..Min(i0 + batchSize + 1, N)

\* updateList.slice(i0, i0 + batchSize), as positions of updateList
Batch(i0) == (i0 + 1)..Min(i0 + batchSize, N)

\* an update call up to its first request: ensureAuthenticated ->
\* validateSession probes when a token is held, otherwise authenticate
\* sends a token request
Issued(t) == [NewTask EXCEPT !.st = IF HasSession(auth[A]) THEN "probe" ELSE "token"]

\* the loop from index i0 with the lists su, fu: issue the next group or
\* build the result and return
Loop(i0, su, fu) ==
  /\ i' = i0
  /\ successfulUpdates' = su
  /\ failedUpdates' = fu
  /\ IF i0 < N
     THEN /\ pc' = "awaiting"
          /\ task' = [k \in 1..N |-> IF k \in Batch(i0) THEN Issued(task[k])
                                      ELSE IF i0 = 0 THEN NewTask ELSE task[k]]
          /\ tokenReqs' = IF HasSession(auth[A]) THEN tokenReqs
                          ELSE tokenReqs + Cardinality(Batch(i0))
          /\ result' = result
     ELSE /\ pc' = "returned"
          /\ result' = Results(su, fu)
          /\ UNCHANGED <<task, tokenReqs>>

\* processUpdates / processWorkOrderUpdates up to the first await
ProcessUpdates ==
  /\ pc = "ready"
  /\ Loop(0, << >>, << >>)
  /\ pauses' = 0
  /\ UNCHANGED <<lookup, interactive, runs, flow, httpVars, csvVars, privateKey, authCall, stats, wf, updateList, batchSize, delayMs, auth, tokensGranted,
                 initialToken, initialResp, probeFailed, patches, queries>>

\* await Promise.all(batchPromises): resumes when every promise of the group
\* has resolved, rejects as soon as one has rejected
\* variant: the group's promises are not awaited
GroupNotAwaited == TRUE

\* variant: the pause does not look whether a further group follows
DelayDueAlways == delayMs > 0

\* if (i + batchSize < updateList.length && delayMs > 0) await this.delay(delayMs)
DelayDue == i + batchSize < N /\ delayMs > 0

GroupSettled == \A k \in Batch(i) : task[k].st = "done"
GroupRejected == \E k \in Batch(i) : task[k].st = "rejected"

PromiseAllSettles ==
  /\ pc = "awaiting"
  /\ GroupSettled \/ GroupRejected
  /\ IF GroupRejected
     THEN /\ pc' = "rejected"
          /\ UNCHANGED <<i, task, successfulUpdates, failedUpdates, result, tokenReqs>>
     ELSE IF DelayDue
     THEN /\ pc' = "delay"
          /\ UNCHANGED <<i, task, successfulUpdates, failedUpdates, result, tokenReqs>>
     ELSE Loop(i + batchSize, successfulUpdates, failedUpdates)
  \* the count stops at MaxPauses
  /\ pauses' = IF ~GroupRejected /\ DelayDue THEN Min(pauses + 1, MaxPauses) ELSE pauses
  /\ UNCHANGED <<lookup, interactive, runs, flow, httpVars, csvVars, privateKey, authCall, stats, wf, updateList, batchSize, delayMs, auth, tokensGranted,
                 initialToken, initialResp, probeFailed, patches, queries>>

\* the timer of delay(delayMs) fires
DelayElapsed ==
  /\ pc = "delay"
  /\ Loop(i + batchSize, successfulUpdates, failedUpdates)
  /\ UNCHANGED <<lookup, interactive, runs, flow, httpVars, csvVars, privateKey, authCall, stats, pauses, wf, updateList, batchSize, delayMs, auth, tokensGranted,
                 initialToken, initialResp, probeFailed, patches, queries>>

\* ----------------------------------------------------------- one update call
\* the call settles: push the outcome, resolve or reject its promise
Settle(k, t, c) ==
  /\ task' = [task EXCEPT ![k] = [t EXCEPT !.st = IF c.rejects THEN "rejected" ELSE "done"]]
  /\ successfulUpdates' = IF c.list = "successful" THEN push(successfulUpdates, c.outcome)
                          ELSE successfulUpdates
  /\ failedUpdates' = IF c.list = "failed" THEN push(failedUpdates, c.outcome)
                      ELSE failedUpdates

\* the call after ensureAuthenticated has returned or thrown (ens), with the
\* auth instances as a2: the catch block, or the headers and the request
Proceed(k, t, a2, ens) ==
  LET req == updateList[k]
      call == [idx |-> k, bearer |-> a2[A].accessToken] IN
  /\ auth' = a2
  /\ IF ens.threw
     THEN /\ Settle(k, t, ItemCatch(k, req, ens.err))
          /\ UNCHANGED <<patches, queries>>
     ELSE IF getAuthHeadersThrows(a2[A])
     THEN /\ Settle(k, t, ItemCatch(k, req, PlainError("Not authenticated")))
          /\ UNCHANGED <<patches, queries>>
     ELSE /\ task' = [task EXCEPT ![k] =
                        [t EXCEPT !.st = IF ItemOp(wf) = "updateRecord" THEN "patch" ELSE "query"]]
          /\ patches' = IF ItemOp(wf) = "updateRecord" THEN patches \cup {call} ELSE patches
          /\ queries' = IF ItemOp(wf) = "updateRecord" THEN queries ELSE queries \cup {call}
          /\ UNCHANGED <<successfulUpdates, failedUpdates>>

\* the probe of validateSession settles
ValidateSessionSettles(k) ==
  /\ task[k].st = "probe"
  /\ \E ok \in BOOLEAN :
       IF ok
       THEN /\ Proceed(k, task[k], auth, [threw |-> FALSE, err |-> NoError])
            /\ UNCHANGED <<tokenReqs, probeFailed>>
       ELSE /\ task' = [task EXCEPT ![k].st = "token"]
            /\ tokenReqs' = tokenReqs + 1
            /\ probeFailed' = TRUE
            /\ UNCHANGED <<auth, successfulUpdates, failedUpdates, patches, queries>>
  /\ UNCHANGED <<lookup, interactive, runs, flow, httpVars, csvVars, privateKey, authCall, stats, pauses, wf, updateList, batchSize, delayMs, pc, i, result,
                 tokensGranted, initialToken, initialResp>>

\* the token request of a re-authentication settles
TokenRequestSettles(k) ==
  /\ task[k].st = "token"
  /\ \E resp \in TokenResponses :
       LET r == authenticate(A, resp, tokensGranted + 1) IN
         /\ tokensGranted' = IF resp = "ok" THEN tokensGranted + 1 ELSE tokensGranted
         /\ Proceed(k, [task[k] EXCEPT !.reauth = resp], AuthAfter(A, r), r)
  /\ UNCHANGED <<lookup, interactive, runs, flow, httpVars, csvVars, privateKey, authCall, stats, pauses, wf, updateList, batchSize, delayMs, pc, i, result, tokenReqs,
                 initialToken, initialResp, probeFailed>>

\* the PATCH request settles
PatchSettles(k) ==
  /\ task[k].st = "patch"
  /\ \E resp \in PatchResponses :
       LET req == updateList[k]
           t == [task[k] EXCEPT !.patched = resp] IN
       CASE resp = "ok"   -> Settle(k, t, updateRecordResult(k, req, "204"))
         [] resp = "http" -> Settle(k, t, updateRecordCatch(k, req, HttpError("400", "MALFORMED_ID")))
         [] OTHER         -> Settle(k, t, updateRecordCatch(k, req, PlainError("Network Error")))
  /\ UNCHANGED <<lookup, interactive, runs, flow, httpVars, csvVars, privateKey, authCall, stats, pauses, wf, updateList, batchSize, delayMs, pc, i, auth, result,
                 tokenReqs, tokensGranted, initialToken, initialResp, probeFailed,
                 patches, queries>>

\* the lookup query settles
QuerySettles(k) ==
  /\ task[k].st = "query"
  /\ \E resp \in QueryResponses :
       LET req == updateList[k]
           t == [task[k] EXCEPT !.lookup = resp] IN
       CASE resp = "found" -> Settle(k, t, updateWorkOrderFound(k, req, IdOf(req.workOrderNumber)))
         [] resp = "none"  -> Settle(k, t, updateWorkOrderNotFound(k, req))
         [] resp = "http"  -> Settle(k, t, updateWorkOrderCatch(k, req, HttpError("400", "MALFORMED_QUERY")))
         [] OTHER          -> Settle(k, t, updateWorkOrderCatch(k, req, PlainError("Network Error")))
  /\ UNCHANGED <<lookup, interactive, runs, flow, httpVars, csvVars, privateKey, authCall, stats, pauses, wf, updateList, batchSize, delayMs, pc, i, auth, result,
                 tokenReqs, tokensGranted, initialToken, initialResp, probeFailed,
                 patches, queries>>

Next ==
  \/ Authenticate
  \/ AuthenticateSettles
  \/ ProcessUpdates
  \/ PromiseAllSettles
  \/ DelayElapsed
  \/ \E k \in 1..N : ValidateSessionSettles(k)
  \/ \E k \in 1..N : TokenRequestSettles(k)
  \/ \E k \in 1..N : PatchSettles(k)
  \/ \E k \in 1..N : QuerySettles(k)

Spec == Init /\ [][Next]_vars

\* ------------------------------------------------ the updater used call by call
\* a script holding the updater calls updateRecord / updateWorkOrderByNumber
\* on its own, getStats and clearHistory, and then runs the batch operation
\* one update call made on its own, up to its first request
UpdateCall(k) ==
  /\ pc = "ready"
  /\ task[k].st = "idle"
  /\ Cardinality({ j \in 1..N : task[j].st # "idle" }) < MaxCalls
  /\ task' = [task EXCEPT ![k] = Issued(task[k])]
  /\ tokenReqs' = IF HasSession(auth[A]) THEN tokenReqs ELSE tokenReqs + 1
  /\ UNCHANGED <<lookup, interactive, runs, flow, httpVars, csvVars, privateKey, authCall, stats, pauses, wf, updateList, batchSize, delayMs, pc, i, auth,
                 successfulUpdates, failedUpdates, result, tokensGranted,
                 initialToken, initialResp, probeFailed, patches, queries>>

GetStats ==
  /\ pc \in {"ready", "returned"}
  /\ stats' = getStats(successfulUpdates, failedUpdates)
  /\ UNCHANGED <<lookup, interactive, runs, flow, httpVars, csvVars, privateKey, authCall, pauses, wf, updateList, batchSize, delayMs, pc, i, auth, task,
                 successfulUpdates, failedUpdates, result, tokenReqs, tokensGranted,
                 initialToken, initialResp, probeFailed, patches, queries>>

ClearHistory ==
  /\ pc \in {"ready", "returned"}
  /\ successfulUpdates' = << >>
  /\ failedUpdates' = << >>
  /\ UNCHANGED <<lookup, interactive, runs, flow, httpVars, csvVars, privateKey, authCall, stats, pauses, wf, updateList, batchSize, delayMs, pc, i, auth, task,
                 result, tokenReqs, tokensGranted,
                 initialToken, initialResp, probeFailed, patches, queries>>

\* no update call made on its own is still in flight
Quiet == \A k \in 1..N : task[k].st \in {"idle", "done"}

NextSession ==
  \/ Authenticate
  \/ AuthenticateSettles
  \/ \E k \in 1..N : UpdateCall(k)
  \/ GetStats
  \/ ClearHistory
  \/ Quiet /\ ProcessUpdates
  \/ PromiseAllSettles
  \/ DelayElapsed
  \/ \E k \in 1..N : ValidateSessionSettles(k)
  \/ \E k \in 1..N : TokenRequestSettles(k)
  \/ \E k \in 1..N : PatchSettles(k)
  \/ \E k \in 1..N : QuerySettles(k)

\* the scripts that use the updater call by call hold the enhanced updater
\* and run the batch operation one update at a time
InitSession ==
  /\ Init
  /\ wf \in {"direct", "vimeo"}
  /\ batchSize = 1

SpecSession == InitSession /\ [][NextSession]_vars


\* ------------------------------------------------- one field written and read
\* no updater is in use
UpdaterOff ==
  /\ wf = "direct"
  /\ updateList = << >>
  /\ batchSize = 1
  /\ delayMs = DefaultDelayMs
  /\ pc = "off"
  /\ i = 0
  /\ task = << >>
  /\ successfulUpdates = << >>
  /\ failedUpdates = << >>
  /\ result = NoResult
  /\ tokenReqs = 0
  /\ tokensGranted = 0
  /\ initialToken = NoToken
  /\ initialResp = Absent
  /\ probeFailed = FALSE
  /\ patches = {}
  /\ queries = {}
  /\ pauses = 0
  /\ stats = NoStats

\* no auth instance is in use
AuthOff ==
  /\ auth = [inst \in {"jwt", "pwd"} |-> [accessToken |-> NoToken, instanceUrl |-> Absent]]
  /\ privateKey = Absent
  /\ authCall = NoCall

InitField ==
  /\ UpdaterOff
  /\ AuthOff
  /\ HttpOff
  /\ FlowOff
  /\ SideOff
  /\ csvPc = "new"
  /\ value \in Strings(MaxField)
  /\ data = << >>
  /\ columns = Absent
  /\ content = << >>
  /\ values = << >>

\* CSVExporter.escapeCSVValue(value)
EscapeCSVValue ==
  /\ csvPc = "new"
  /\ content' = escapeCSVValue(value)
  /\ csvPc' = "escaped"
  /\ UNCHANGED <<lookup, interactive, runs, flow, httpVars, updaterVars, value, data, columns, values>>

\* the escaped field read back: the lines of the text, each through parseCSVLine
ReadBack ==
  /\ csvPc = "escaped"
  /\ values' = readValues(content)
  /\ csvPc' = "read"
  /\ UNCHANGED <<lookup, interactive, runs, flow, httpVars, updaterVars, value, data, columns, content>>

NextField ==
  \/ EscapeCSVValue
  \/ ReadBack

SpecField == InitField /\ [][NextField]_vars

\* ------------------------------------------- records written and ids extracted
\* a word stands for a run of ordinary characters
Word(w) == << w >>

\* the values of a record's properties: strings, metadata objects, null
Str(chars) == [t |-> "string", s |-> chars]
Obj(name, id) == [t |-> "object", workOrderName |-> name, sassieId |-> id]
Null == [t |-> "null"]

\* JSON.stringify of a metadata object; an undefined property is left out
JSONstringify(o) ==
  <<"{", Quote>> \o Word("workOrderName") \o <<Quote, ":", Quote>> \o Word(o.workOrderName)
    \o <<Quote>>
    \o (IF o.sassieId = Absent THEN << >>
        ELSE <<Comma, Quote>> \o Word("sassieId") \o <<Quote, ":", Quote>>
               \o Word(o.sassieId) \o <<Quote>>)
    \o <<"}">>

RecordIds == { Word("001xx"), <<"x", LF, "y">> }
MetaObjects == { Obj("W1", "S1"), Obj("W2", Absent) }
Metadatas == MetaObjects \cup { Str(<<"{", "bad">>), Null }
Records == [recordId : { Str(r) : r \in RecordIds }, metadata : Metadatas]
DataSets == UNION { [1..n -> Records] : n \in 0..MaxRows }

\* the columns argument: null, or a list of property names
ColumnChoices == { Absent, << >>, <<"recordId", "metadata">>, <<"metadata", "timestamp">> }

\* Object.keys of a record, in insertion order
ObjectKeys(rec) == <<"recordId", "metadata">>

\* row[header], stringified if an object, '' if null or undefined, as a string
Cell(rec, header) ==
  LET v == IF header \in DOMAIN rec THEN rec[header] ELSE Null IN
  CASE v.t = "object" -> JSONstringify(v)
    [] v.t = "null"   -> << >>
    [] OTHER          -> v.s

\* variant: the cells are joined without being escaped
arrayToCSVUnescaped(d, cols) ==
  IF Len(d) = 0 THEN << >>
  ELSE LET headers == IF cols # Absent THEN cols ELSE ObjectKeys(d[1])
           csvHeader == join([j \in 1..Len(headers) |-> Word(headers[j])], Comma)
           csvRows == [r \in 1..Len(d) |->
                         join([j \in 1..Len(headers) |-> Cell(d[r], headers[j])], Comma)]
       IN join(<<csvHeader>> \o csvRows, LF)

arrayToCSV(d, cols) ==
  IF Len(d) = 0 THEN << >>
  ELSE LET headers == IF cols # Absent THEN cols ELSE ObjectKeys(d[1])
           csvHeader == join([j \in 1..Len(headers) |-> escapeCSVValue(Word(headers[j]))], Comma)
           csvRows == [r \in 1..Len(d) |->
                         join([j \in 1..Len(headers) |->
                                 escapeCSVValue(Cell(d[r], headers[j]))], Comma)]
       IN join(<<csvHeader>> \o csvRows, LF)

\* h.trim().replace(/^"|"$/g, "")
stripQuotes(h) ==
  LET a == IF h # << >> /\ Head(h) = Quote THEN Tail(h) ELSE h
  IN IF a # << >> /\ a[Len(a)] = Quote THEN SubSeq(a, 1, Len(a) - 1) ELSE a

\* Array.prototype.indexOf, from 1; 0 stands for -1
indexOf(list, x) ==
  IF \E j \in 1..Len(list) : list[j] = x
  THEN CHOOSE j \in 1..Len(list) : list[j] = x /\ \A k \in 1..(j - 1) : list[k] # x
  ELSE 0

\* values[index]; undefined outside the array
At(vals, index) == IF index \in 1..Len(vals) THEN vals[index] ELSE Absent

\* JSON.parse on the texts that occur: the text of a metadata object parses
\* to it, every other text is a SyntaxError
JSONparse(text) ==
  IF \E o \in MetaObjects : JSONstringify(o) = text
  THEN [ok |-> TRUE, v |-> CHOOSE o \in MetaObjects : JSONstringify(o) = text]
  ELSE [ok |-> FALSE, v |-> Null]

\* the for loop of extractSassieIds from line j with sassieData so far
RECURSIVE extractFrom(_, _, _, _)
extractFrom(lines, headers, j, sassieData) ==
  IF j > Len(lines) THEN sassieData
  ELSE LET vals == parseCSVLine(lines[j])
           metadataStr == At(vals, indexOf(headers, Word("metadata")))
           parsed == IF metadataStr = Absent THEN [ok |-> FALSE, v |-> Null]
                     ELSE JSONparse(metadataStr)
       IN IF parsed.ok /\ parsed.v.sassieId # Absent
          THEN extractFrom(lines, headers, j + 1,
                 Append(sassieData,
                   [workOrderName |-> parsed.v.workOrderName,
                    sassieId |-> parsed.v.sassieId,
                    recordId |-> At(vals, indexOf(headers, Word("recordId"))),
                    line |-> j]))
          ELSE extractFrom(lines, headers, j + 1, sassieData)

\* extractSassieIds: what it returns, or that it throws
extractSassieIds(text) ==
  LET lines == readLines(text)
      cells == split(lines[1], Comma)
      headers == [j \in 1..Len(cells) |-> stripQuotes(trim(cells[j]))]
  IN IF Len(lines) < 2 THEN [threw |-> FALSE, sassieData |-> << >>]
     ELSE IF indexOf(headers, Word("metadata")) = 0
          THEN [threw |-> TRUE, sassieData |-> << >>]
     ELSE [threw |-> FALSE, sassieData |-> extractFrom(lines, headers, 2, << >>)]

InitCSV ==
  /\ UpdaterOff
  /\ AuthOff
  /\ HttpOff
  /\ FlowOff
  /\ SideOff
  /\ csvPc = "new"
  /\ value = << >>
  /\ data \in DataSets
  /\ columns \in ColumnChoices
  /\ content = << >>
  /\ values = << >>

\* exportCustomData: arrayToCSV and the file written
ExportCustomData ==
  /\ csvPc = "new"
  /\ content' = arrayToCSV(data, columns)
  /\ csvPc' = "written"
  /\ UNCHANGED <<lookup, interactive, runs, flow, httpVars, updaterVars, value, data, columns, values>>

\* extractSassieIds on the file written
ExtractSassieIds ==
  /\ csvPc = "written"
  /\ values' = extractSassieIds(content)
  /\ csvPc' = "extracted"
  /\ UNCHANGED <<lookup, interactive, runs, flow, httpVars, updaterVars, value, data, columns, content>>

NextCSV ==
  \/ ExportCustomData
  \/ ExtractSassieIds

SpecCSV == InitCSV /\ [][NextCSV]_vars

\* ------------------------------------------- authenticate called by itself
\* a caller holds one instance of each flow and calls authenticate (or
\* exchangeCodeForToken) on them, one call at a time
Instances == {"pwd", "jwt", "web"}

InitAuth ==
  /\ UpdaterOff
  /\ CsvOff
  /\ HttpOff
  /\ FlowOff
  /\ SideOff
  /\ auth = [inst \in Instances |-> [accessToken |-> NoToken, instanceUrl |-> Absent]]
  /\ privateKey \in {"pem", Absent}
  /\ authCall = NoCall

CallAuthenticate(inst) ==
  /\ authCall.st \in {"idle", "returned", "threw"}
  /\ (IF authCall.st = "idle" THEN 0 ELSE authCall.n) < MaxAuthCalls
  /\ LET n == IF authCall.st = "idle" THEN 1 ELSE authCall.n + 1 IN
     IF createJWTThrows(inst, privateKey)
     THEN /\ authCall' = [st |-> "threw", inst |-> inst, n |-> n, sent |-> 0,
                          resp |-> Absent, ret |-> Absent, before |-> auth[inst]]
          /\ tokenReqs' = tokenReqs
     ELSE /\ authCall' = [st |-> "sent", inst |-> inst, n |-> n, sent |-> 1,
                          resp |-> Absent, ret |-> Absent, before |-> auth[inst]]
          /\ tokenReqs' = tokenReqs + 1
  /\ UNCHANGED <<lookup, interactive, runs, flow, httpVars, csvVars, privateKey, wf, updateList, batchSize, delayMs, pc, i, auth,
                 task, successfulUpdates, failedUpdates, result, tokensGranted,
                 initialToken, initialResp, probeFailed, patches, queries, pauses, stats>>

TokenResponse ==
  /\ authCall.st = "sent"
  /\ \E resp \in TokenResponses :
       LET r == authenticate(authCall.inst, resp, tokensGranted + 1) IN
         /\ auth' = AuthAfter(authCall.inst, r)
         /\ tokensGranted' = IF resp = "ok" THEN tokensGranted + 1 ELSE tokensGranted
         /\ authCall' = [authCall EXCEPT !.st = IF r.threw THEN "threw" ELSE "returned",
                                         !.resp = resp,
                                         !.ret = IF r.threw THEN Absent ELSE r.auth]
  /\ UNCHANGED <<lookup, interactive, runs, flow, httpVars, csvVars, privateKey, wf, updateList, batchSize, delayMs, pc, i,
                 task, successfulUpdates, failedUpdates, result, tokenReqs,
                 initialToken, initialResp, probeFailed, patches, queries, pauses, stats>>

NextAuth ==
  \/ \E inst \in Instances : CallAuthenticate(inst)
  \/ TokenResponse

SpecAuth == InitAuth /\ [][NextAuth]_vars

\* --------------------------------------- ensureAuthenticated called by itself
\* a caller holds a password instance and a JWT instance and calls
\* ensureAuthenticated on them, one call at a time
EnsureInstances == {"pwd", "jwt"}

InitEnsure ==
  /\ UpdaterOff
  /\ CsvOff
  /\ HttpOff
  /\ FlowOff
  /\ SideOff
  /\ auth = [inst \in Instances |-> [accessToken |-> NoToken, instanceUrl |-> Absent]]
  /\ privateKey \in {"pem", Absent}
  /\ authCall = NoCall

\* variant: authenticate is never called
ensureAuthenticatedSkips(isValid) == FALSE

\* ensureAuthenticated calls authenticate when validateSession returned false
ensureAuthenticated(isValid) == ~isValid

\* ensureAuthenticated with validateSession returned (c.probe): it returns,
\* or authenticate() builds its request, sends it or throws before sending
AfterValidateSession(c, isValid) ==
  IF ~ensureAuthenticated(isValid)
  THEN /\ authCall' = [c EXCEPT !.st = "returned"]
       /\ tokenReqs' = tokenReqs
  ELSE IF createJWTThrows(c.inst, privateKey)
  THEN /\ authCall' = [c EXCEPT !.st = "threw"]
       /\ tokenReqs' = tokenReqs
  ELSE /\ authCall' = [c EXCEPT !.st = "sent", !.sent = 1]
       /\ tokenReqs' = tokenReqs + 1

\* ensureAuthenticated() is called: validateSession returns false at once
\* without a token or URL, otherwise it sends its probe
CallEnsureAuthenticated(inst) ==
  /\ authCall.st \in {"idle", "returned", "threw"}
  /\ (IF authCall.st = "idle" THEN 0 ELSE authCall.n) < MaxAuthCalls + 1
  /\ LET c == [st |-> "probing", inst |-> inst,
               n |-> IF authCall.st = "idle" THEN 1 ELSE authCall.n + 1,
               sent |-> 0, resp |-> Absent, ret |-> Absent, before |-> auth[inst],
               probe |-> "none"] IN
     IF HasSession(auth[inst])
     THEN authCall' = c /\ tokenReqs' = tokenReqs
     ELSE AfterValidateSession(c, FALSE)
  /\ UNCHANGED <<lookup, interactive, runs, flow, httpVars, csvVars, privateKey, wf, updateList, batchSize, delayMs, pc, i, auth,
                 task, successfulUpdates, failedUpdates, result, tokensGranted,
                 initialToken, initialResp, probeFailed, patches, queries, pauses, stats>>

\* the probe of validateSession settles
ProbeSettles ==
  /\ authCall.st = "probing"
  /\ \E ok \in BOOLEAN :
       AfterValidateSession([authCall EXCEPT !.probe = IF ok THEN "ok" ELSE "failed"], ok)
  /\ UNCHANGED <<lookup, interactive, runs, flow, httpVars, csvVars, privateKey, wf, updateList, batchSize, delayMs, pc, i, auth,
                 task, successfulUpdates, failedUpdates, result, tokensGranted,
                 initialToken, initialResp, probeFailed, patches, queries, pauses, stats>>

NextEnsure ==
  \/ \E inst \in EnsureInstances : CallEnsureAuthenticated(inst)
  \/ ProbeSettles
  \/ TokenResponse

SpecEnsure == InitEnsure /\ [][NextEnsure]_vars

\* ------------------------------------------------- authenticateInteractive
\* the promise of authenticateInteractive from the moment the listener is
\* listening on its port and the timeout timer is armed
CallbackQueries == {"error", "nocode", "code"}

InitInteractive ==
  /\ UpdaterOff
  /\ CsvOff
  /\ HttpOff
  /\ FlowOff
  /\ runs = NoRuns
  /\ lookup = NoLookup
  /\ auth = [inst \in Instances |-> [accessToken |-> NoToken, instanceUrl |-> Absent]]
  /\ privateKey = Absent
  /\ authCall = NoCall
  /\ interactive = [promise |-> "pending", reason |-> Absent, server |-> "listening",
                    timer |-> "armed", callbacks |-> 0, seen |-> {}, exchanging |-> 0,
                    exchanged |-> 0]

\* variant: a later resolve or reject call replaces the outcome
settleOverrides(p, outcome, reason) == [p EXCEPT !.promise = outcome, !.reason = reason]

\* resolve(...) or reject(...) of the promise: only the first call has an effect
settle(p, outcome, reason) ==
  IF p.promise = "pending" THEN [p EXCEPT !.promise = outcome, !.reason = reason] ELSE p

\* server.close()
close(p) == [p EXCEPT !.server = "closed"]

\* GET /oauth/callback arrives: an error, no code, or a code whose exchange
\* is awaited
CallbackArrives(q) ==
  /\ interactive.server = "listening"
  /\ interactive.callbacks < MaxCallbacks
  /\ LET p == [interactive EXCEPT !.callbacks = @ + 1, !.seen = @ \cup {q}] IN
     IF q = "code"
     THEN /\ interactive' = [p EXCEPT !.exchanging = @ + 1]
          /\ tokenReqs' = tokenReqs + 1
     ELSE /\ interactive' = settle(close(p), "rejected", q)
          /\ tokenReqs' = tokenReqs
  /\ UNCHANGED <<lookup, runs, flow, httpVars, csvVars, privateKey, wf, updateList, batchSize, delayMs,
                 pc, i, auth, task, successfulUpdates, failedUpdates, result, tokensGranted,
                 initialToken, initialResp, probeFailed, patches, queries, pauses, stats,
                 authCall>>

\* exchangeCodeForToken settles: resolve with the tokens, or reject with its error
ExchangeSettles ==
  /\ interactive.exchanging > 0
  /\ \E resp \in TokenResponses :
       LET r == authenticate("web", resp, tokensGranted + 1)
           p == close([interactive EXCEPT !.exchanging = @ - 1,
                                          !.exchanged = IF r.threw THEN @ ELSE @ + 1]) IN
         /\ auth' = AuthAfter("web", r)
         /\ tokensGranted' = IF resp = "ok" THEN tokensGranted + 1 ELSE tokensGranted
         /\ interactive' = IF r.threw THEN settle(p, "rejected", "exchange")
                           ELSE settle(p, "resolved", Absent)
  /\ UNCHANGED <<lookup, runs, flow, httpVars, csvVars, privateKey, wf, updateList, batchSize, delayMs,
                 pc, i, task, successfulUpdates, failedUpdates, result, tokenReqs,
                 initialToken, initialResp, probeFailed, patches, queries, pauses, stats,
                 authCall>>

\* the timer set for five minutes fires; it is never cleared
TimerFires ==
  /\ interactive.timer = "armed"
  /\ interactive' = settle(close([interactive EXCEPT !.timer = "fired"]), "rejected", "timeout")
  /\ UNCHANGED <<lookup, runs, flow, httpVars, csvVars, updaterVars>>

NextInteractive ==
  \/ \E q \in CallbackQueries : CallbackArrives(q)
  \/ ExchangeSettles
  \/ TimerFires

SpecInteractive ==
  InitInteractive /\ [][NextInteractive]_vars /\ WF_vars(TimerFires)

\* ------------------------------------------ batch runs sharing one updater
\* a caller starts batch runs on one updater instance without awaiting the
\* earlier ones; each update call is taken as a whole and settles with a
\* success or a failure outcome
InitOverlap ==
  /\ UpdaterOff
  /\ AuthOff
  /\ CsvOff
  /\ HttpOff
  /\ FlowOff
  /\ interactive = NoInteractive
  /\ lookup = NoLookup
  /\ runs = [run |-> << >>, gen |-> 0, overlap |-> FALSE, unreturned |-> FALSE]

\* the requests of run u that the group starting at index i0 issues
RunBatch(u, i0) == (i0 + 1)..Min(i0 + u.batchSize, u.n)

\* the results object references the arrays the instance holds at the
\* return: gen names them, and the lists follow later pushes to them
RunResults(u, gen, su, fu) ==
  [gen |-> gen, totalProcessed |-> u.n, successful |-> Len(su), failed |-> Len(fu),
   successfulUpdates |-> su, failedUpdates |-> fu]

\* a run that still awaits the updates of its group
InFlightRun(u) == u.pc = "awaiting" /\ u.pending # {}

\* processUpdates is called: both arrays are replaced by empty ones and the
\* first group is issued
StartRun ==
  /\ Len(runs.run) < MaxRuns
  /\ \E n \in 1..MaxLen, b \in 1..MaxBatch :
       LET u == [n |-> n, batchSize |-> b, i |-> 0, pc |-> "awaiting",
                 pending |-> 1..Min(b, n), result |-> NoResult] IN
       runs' = [run |-> Append(runs.run, u), gen |-> runs.gen + 1,
                overlap |-> runs.overlap \/ \E r \in 1..Len(runs.run) : InFlightRun(runs.run[r]),
                unreturned |-> runs.unreturned
                                 \/ \E r \in 1..Len(runs.run) : runs.run[r].pc = "awaiting"]
  /\ successfulUpdates' = << >>
  /\ failedUpdates' = << >>
  /\ UNCHANGED <<lookup, interactive, flow, httpVars, csvVars, privateKey, authCall, stats, pauses, wf,
                 updateList, batchSize, delayMs, pc, i, auth, task, result, tokenReqs,
                 tokensGranted, initialToken, initialResp, probeFailed, patches, queries>>

\* the results already returned that hold the arrays su, fu replace
Aliased(us, gen, su, fu) ==
  [r \in 1..Len(us) |->
     IF us[r].pc = "returned" /\ us[r].result.gen = gen
     THEN [us[r] EXCEPT !.result.successfulUpdates = su, !.result.failedUpdates = fu]
     ELSE us[r]]

\* an update call of run r settles and pushes its outcome to the array the
\* instance holds now
UpdateSettles(r, k) ==
  /\ r \in 1..Len(runs.run)
  /\ runs.run[r].pc = "awaiting"
  /\ k \in runs.run[r].pending
  /\ \E success \in BOOLEAN :
       LET outcome == [run |-> r, idx |-> k, success |-> success]
           su == IF success THEN push(successfulUpdates, outcome) ELSE successfulUpdates
           fu == IF success THEN failedUpdates ELSE push(failedUpdates, outcome)
           us == [runs.run EXCEPT ![r].pending = @ \ {k}] IN
         /\ successfulUpdates' = su
         /\ failedUpdates' = fu
         /\ runs' = [runs EXCEPT !.run = Aliased(us, runs.gen, su, fu)]
  /\ UNCHANGED <<lookup, interactive, flow, httpVars, csvVars, privateKey, authCall, stats, pauses, wf,
                 updateList, batchSize, delayMs, pc, i, auth, task, result, tokenReqs,
                 tokensGranted, initialToken, initialResp, probeFailed, patches, queries>>

\* Promise.all of the group of run r resolves: the next group is issued, or
\* the results are built from the arrays of the instance and returned
GroupSettles(r) ==
  /\ r \in 1..Len(runs.run)
  /\ runs.run[r].pc = "awaiting"
  /\ runs.run[r].pending = {}
  /\ LET u == runs.run[r]
         i2 == u.i + u.batchSize IN
     runs' = [runs EXCEPT !.run[r] =
                IF i2 < u.n
                THEN [u EXCEPT !.i = i2, !.pending = RunBatch(u, i2)]
                ELSE [u EXCEPT !.i = i2, !.pc = "returned",
                               !.result = RunResults(u, runs.gen, successfulUpdates,
                                                     failedUpdates)]]
  /\ UNCHANGED <<lookup, interactive, flow, httpVars, csvVars, updaterVars>>

NextOverlap ==
  \/ StartRun
  \/ \E r \in 1..MaxRuns, k \in 1..MaxLen : UpdateSettles(r, k)
  \/ \E r \in 1..MaxRuns : GroupSettles(r)

SpecOverlap == InitOverlap /\ [][NextOverlap]_vars

\* ------------------------------------------------ lookupWorkOrderByNumber
\* the work order number is escaped and embedded in the quoted literal of the
\* query; the server reads the literal by the escape rules of SOQL
Apostrophe == "'"
Backslash == "\\"
NumberChars == {"a", Apostrophe, Backslash}
Numbers == UNION { [1..m -> NumberChars] : m \in 1..MaxNumber }

\* workOrderNumber.replace(/'/g, "\\'")
RECURSIVE escapeNumber(_)
escapeNumber(s) ==
  IF s = << >> THEN << >>
  ELSE (IF Head(s) = Apostrophe THEN << Backslash, Apostrophe >> ELSE << Head(s) >>)
         \o escapeNumber(Tail(s))

\* the query from its literal on: the escaped number, the closing quote and
\* the rest of the statement
soqlFrom(escaped) == escaped \o << Apostrophe, Space, "L" >>

\* the literal as SOQL reads it from position j: a backslash takes the next
\* character with it, the first bare quote closes the literal
RECURSIVE readLiteral(_, _, _)
readLiteral(text, j, acc) ==
  IF j > Len(text) THEN [st |-> "unterminated", val |-> acc, end |-> j]
  ELSE IF text[j] = Apostrophe THEN [st |-> "closed", val |-> acc, end |-> j]
  ELSE IF text[j] # Backslash THEN readLiteral(text, j + 1, Append(acc, text[j]))
  ELSE IF j = Len(text) THEN [st |-> "unterminated", val |-> acc, end |-> j]
  ELSE IF text[j + 1] \in {Apostrophe, Backslash}
  THEN readLiteral(text, j + 2, Append(acc, text[j + 1]))
  ELSE [st |-> "malformed", val |-> acc, end |-> j]

InitLookup ==
  /\ UpdaterOff
  /\ AuthOff
  /\ CsvOff
  /\ HttpOff
  /\ FlowOff
  /\ interactive = NoInteractive
  /\ runs = NoRuns
  /\ \E number \in Numbers :
       lookup = [pc |-> "called", workOrderNumber |-> number, escapedNumber |-> << >>,
                 soql |-> << >>, literal |-> [st |-> Absent]]

\* lookupWorkOrderByNumber builds its query and sends it
SendLookup ==
  /\ lookup.pc = "called"
  /\ lookup' = [lookup EXCEPT !.pc = "sent",
                              !.escapedNumber = escapeNumber(lookup.workOrderNumber),
                              !.soql = soqlFrom(escapeNumber(lookup.workOrderNumber))]
  /\ UNCHANGED <<interactive, runs, flow, httpVars, csvVars, updaterVars>>

\* the server reads the literal of the WHERE clause
ReadLookup ==
  /\ lookup.pc = "sent"
  /\ lookup' = [lookup EXCEPT !.pc = "read", !.literal = readLiteral(lookup.soql, 1, << >>)]
  /\ UNCHANGED <<interactive, runs, flow, httpVars, csvVars, updaterVars>>

NextLookup ==
  \/ SendLookup
  \/ ReadLookup

SpecLookup == InitLookup /\ [][NextLookup]_vars

\* --------------------------------------------------- the HTTP update handlers
\* salesforceUpdater (cloud/index.js) loads the private key, authenticates
\* the JWT instance and runs the basic updater; salesforceUpdateHandler
\* (cloud-function.js) loads a credential configuration and runs the
\* orchestrator of main-example.js
Handlers == {"salesforceUpdater", "salesforceUpdateHandler"}
Methods == {"OPTIONS", "GET", "POST"}

WorkflowOf(h) == IF h = "salesforceUpdater" THEN "cloud" ELSE "orchestrator"

\* req.body.updates is an array, an object of key-value pairs, a non-empty
\* string, or missing; bucket is the storage bucket of the deployment
Bodies(h) ==
  [updates : {Absent, "array", "object", "string"},
   objectType : {Absent, "Account"},
   config : IF h = "salesforceUpdater" THEN {Absent}
            ELSE {Absent, "complete", "incomplete"},
   useSecretManager : IF h = "salesforceUpdater" THEN {Absent} ELSE {Absent, "false"},
   exportToCsv : IF h = "salesforceUpdater" THEN {Absent, "false"} ELSE {Absent},
   bucket : {Absent, "bucket"}]

NoBody ==
  [updates |-> Absent, objectType |-> Absent, config |-> Absent,
   useSecretManager |-> Absent, exportToCsv |-> Absent, bucket |-> Absent]

Requests ==
  { [handler |-> h, method |-> m, body |-> b] :
      h \in Handlers, m \in Methods, b \in UNION { Bodies(g) : g \in Handlers } }

\* if (!updates) / if (!updates || (!Array.isArray(updates) && typeof updates !== 'object'))
NoUpdates(r) ==
  \/ r.body.updates = Absent
  \/ r.handler = "salesforceUpdateHandler" /\ r.body.updates = "string"

\* Array.isArray(updates), else objectType (and typeof updates === "object"
\* in executeUpdateWorkflow); otherwise "Invalid update format" is thrown
ValidFormat(r) ==
  \/ r.body.updates = "array"
  \/ r.body.objectType # Absent
       /\ (r.handler = "salesforceUpdater" \/ r.body.updates = "object")

\* useSecretManager = !config unless the options say otherwise
UseSecretManager(r) ==
  IF r.body.useSecretManager = Absent THEN r.body.config = Absent
  ELSE r.body.useSecretManager = "true"

InitHandler ==
  /\ request \in Requests
  /\ request.body \in (IF request.method = "POST" THEN Bodies(request.handler) ELSE {NoBody})
  \* objectType is read only when updates is not an array, useSecretManager
  \* false changes nothing when a config is sent
  /\ request.body.updates = "array" => request.body.objectType = Absent
  /\ request.body.config # Absent => request.body.useSecretManager = Absent
  /\ handlerPc = "received"
  /\ responses = << >>
  /\ thrown = Absent
  /\ credentials = Absent
  /\ wf = WorkflowOf(request.handler)
  /\ updateList \in (IF request.body.updates = Absent \/ NoUpdates(request)
                     THEN {<< >>} ELSE UpdateLists(wf))
  \* options.batchSize and options.delayMs reach the batch operation as sent
  /\ batchSize \in (IF Len(updateList) > 0 THEN 0..MaxBatch ELSE {1})
  /\ delayMs \in IF Len(updateList) > batchSize THEN {0, DefaultDelayMs} ELSE {DefaultDelayMs}
  /\ pc = "off"
  /\ i = 0
  /\ task = [k \in 1..Len(updateList) |-> NewTask]
  /\ successfulUpdates = << >>
  /\ failedUpdates = << >>
  /\ result = NoResult
  /\ tokenReqs = 0
  /\ tokensGranted = 0
  /\ initialToken = NoToken
  /\ initialResp = Absent
  /\ probeFailed = FALSE
  /\ patches = {}
  /\ queries = {}
  /\ pauses = 0
  /\ stats = NoStats
  /\ AuthOff
  /\ CsvOff
  /\ FlowOff
  /\ SideOff
\* the summary of the 200 response
Summary(r) ==
  [totalProcessed |-> r.totalProcessed, successful |-> r.successful,
   failed |-> r.failed, successRate |-> r.successRate]
NoSummary == [totalProcessed |-> -1]

\* res.status(status).json(...) or .send(), the last statement the handler runs
Send(status, summary) ==
  /\ responses' = Append(responses, [status |-> status, summary |-> summary])
  /\ handlerPc' = "responded"

\* the catch block of the handler
Catch(step) ==
  /\ thrown' = step
  /\ Send(500, NoSummary)

\* the configuration is validated and the updater initialized
Configure(sfConfig) ==
  /\ credentials' = sfConfig
  /\ IF sfConfig = "incomplete"
     THEN /\ Send(400, NoSummary)
          /\ UNCHANGED <<thrown, pc>>
     ELSE /\ handlerPc' = "initializing"
          /\ pc' = "start"
          /\ UNCHANGED <<thrown, responses>>

\* the handler up to its first await or its first response
HandleRequest ==
  /\ handlerPc = "received"
  /\ IF request.method = "OPTIONS"
     THEN Send(200, NoSummary) /\ UNCHANGED <<thrown, pc, credentials>>
     ELSE IF request.method # "POST"
     THEN Send(405, NoSummary) /\ UNCHANGED <<thrown, pc, credentials>>
     ELSE IF NoUpdates(request)
     THEN Send(400, NoSummary) /\ UNCHANGED <<thrown, pc, credentials>>
     ELSE IF request.handler = "salesforceUpdater"
     THEN handlerPc' = "loadingKey" /\ UNCHANGED <<thrown, pc, responses, credentials>>
     ELSE IF UseSecretManager(request)
     THEN handlerPc' = "loadingSecrets" /\ UNCHANGED <<thrown, pc, responses, credentials>>
     ELSE \E sfConfig \in (IF request.body.config # Absent THEN {request.body.config}
                           ELSE {"complete", "incomplete"}) :
            Configure(sfConfig)
  /\ UNCHANGED <<lookup, interactive, runs, flow, request, csvVars, privateKey, authCall, stats, pauses, wf, updateList,
                 batchSize, delayMs, i, auth, task, successfulUpdates, failedUpdates,
                 result, tokenReqs, tokensGranted, initialToken, initialResp,
                 probeFailed, patches, queries>>

\* await getPrivateKey() settles
GetPrivateKeySettles ==
  /\ handlerPc = "loadingKey"
  /\ \E loaded \in BOOLEAN :
       IF loaded
       THEN /\ privateKey' = "pem"
            /\ handlerPc' = "initializing"
            /\ pc' = "start"
            /\ UNCHANGED <<thrown, responses>>
       ELSE /\ Catch("credentials")
            /\ UNCHANGED <<privateKey, pc>>
  /\ UNCHANGED <<lookup, interactive, runs, flow, request, credentials, csvVars, authCall, stats, pauses, wf, updateList,
                 batchSize, delayMs, i, auth, task, successfulUpdates, failedUpdates,
                 result, tokenReqs, tokensGranted, initialToken, initialResp,
                 probeFailed, patches, queries>>

\* await orchestrator.loadCredentialsFromSecrets(...) settles
LoadCredentialsSettles ==
  /\ handlerPc = "loadingSecrets"
  /\ \E secret \in {"complete", "incomplete", "throws"} :
       IF secret = "throws"
       THEN Catch("credentials") /\ UNCHANGED <<pc, credentials>>
       ELSE Configure(secret)
  /\ UNCHANGED <<lookup, interactive, runs, flow, request, csvVars, privateKey, authCall, stats, pauses, wf, updateList,
                 batchSize, delayMs, i, auth, task, successfulUpdates, failedUpdates,
                 result, tokenReqs, tokensGranted, initialToken, initialResp,
                 probeFailed, patches, queries>>

\* authenticate() has returned or thrown: the format of updates is looked at
AuthenticateReturns ==
  /\ handlerPc = "initializing"
  /\ pc \in {"ready", "aborted"}
  /\ IF pc = "aborted" THEN Catch("authentication")
     ELSE IF ~ValidFormat(request) THEN Catch("processing")
     ELSE handlerPc' = "processing" /\ UNCHANGED <<thrown, responses>>
  /\ UNCHANGED <<lookup, interactive, runs, flow, request, credentials, csvVars, privateKey, authCall, stats, pauses, wf, updateList,
                 batchSize, delayMs, pc, i, auth, task, successfulUpdates, failedUpdates,
                 result, tokenReqs, tokensGranted, initialToken, initialResp,
                 probeFailed, patches, queries>>

\* the batch operation has returned or rejected
ProcessingReturns ==
  /\ handlerPc = "processing"
  /\ pc \in {"returned", "rejected"}
  /\ IF pc = "rejected" THEN Catch("processing")
     ELSE IF request.body.exportToCsv = "false"
     THEN Send(200, Summary(result)) /\ UNCHANGED thrown
     ELSE handlerPc' = "exporting" /\ UNCHANGED <<thrown, responses>>
  /\ UNCHANGED <<lookup, interactive, runs, flow, request, credentials, csvVars, privateKey, authCall, stats, pauses, wf, updateList,
                 batchSize, delayMs, pc, i, auth, task, successfulUpdates, failedUpdates,
                 result, tokenReqs, tokensGranted, initialToken, initialResp,
                 probeFailed, patches, queries>>

\* exportUpdateResults settles; its files always include the summary file
ExportSettles ==
  /\ handlerPc = "exporting"
  /\ \E written \in BOOLEAN :
       IF ~written THEN Catch("export")
       ELSE IF request.body.bucket # Absent
       THEN handlerPc' = "uploading" /\ UNCHANGED <<thrown, responses>>
       ELSE Send(200, Summary(result)) /\ UNCHANGED thrown
  /\ UNCHANGED <<lookup, interactive, runs, flow, request, credentials, csvVars, privateKey, authCall, stats, pauses, wf, updateList,
                 batchSize, delayMs, pc, i, auth, task, successfulUpdates, failedUpdates,
                 result, tokenReqs, tokensGranted, initialToken, initialResp,
                 probeFailed, patches, queries>>

\* the uploads settle: salesforceUpdater awaits bucket.upload in its try
\* block, uploadFilesToStorage catches the error of each file
UploadSettles ==
  /\ handlerPc = "uploading"
  /\ \E uploaded \in BOOLEAN :
       IF ~uploaded /\ request.handler = "salesforceUpdater" THEN Catch("upload")
       ELSE Send(200, Summary(result)) /\ UNCHANGED thrown
  /\ UNCHANGED <<lookup, interactive, runs, flow, request, credentials, csvVars, privateKey, authCall, stats, pauses, wf, updateList,
                 batchSize, delayMs, pc, i, auth, task, successfulUpdates, failedUpdates,
                 result, tokenReqs, tokensGranted, initialToken, initialResp,
                 probeFailed, patches, queries>>

NextHandler ==
  \/ HandleRequest
  \/ GetPrivateKeySettles
  \/ LoadCredentialsSettles
  \/ Authenticate
  \/ AuthenticateSettles
  \/ AuthenticateReturns
  \/ handlerPc = "processing" /\ ProcessUpdates
  \/ PromiseAllSettles
  \/ DelayElapsed
  \/ \E k \in 1..N : ValidateSessionSettles(k)
  \/ \E k \in 1..N : TokenRequestSettles(k)
  \/ \E k \in 1..N : PatchSettles(k)
  \/ ProcessingReturns
  \/ ExportSettles
  \/ UploadSettles

\* every pending call settles and every continuation runs
SpecHandler == InitHandler /\ [][NextHandler]_vars /\ WF_vars(NextHandler)


\* ------------------------------------------------- the Vimeo workflow scripts
\* processVimeoExport as run by the main of vimeo-to-salesforce.js, and the
\* runCompleteWorkflow of vimeo-sassie-workflow.js and of
\* complete-vimeo-sassie-workflow.js: a JWT authenticate call, the sync
\* step, then the extraction of the SASSIE ids and their upload
Scripts == {"processVimeoExport", "vimeo-sassie-workflow", "complete-vimeo-sassie-workflow"}

\* a record of the export file either carries the work order identifier
\* or does not
RecordLists == UNION { [1..n -> {"id", "noid"}] : n \in 0..MaxLen }

\* variant: the identifier is not looked at
transformRecordUnchecked(rec) == [threw |-> FALSE]

\* transformRecord: throws when the record has no work order identifier
transformRecord(rec) == [threw |-> rec = "noid"]

\* the positions of recs, in order, on which transformRecord threw (or did not)
RECURSIVE Select(_, _, _)
Select(recs, k, threw) ==
  IF k > Len(recs) THEN << >>
  ELSE (IF transformRecord(recs[k]).threw = threw THEN << k >> ELSE << >>)
       \o Select(recs, k + 1, threw)

\* the loop over vimeoRecords.entries(): updates and transformErrors
Updates(recs) == Select(recs, 1, FALSE)
TransformErrors(recs) == Select(recs, 1, TRUE)

\* what processVimeoExport resolves to
NoSync == [kind |-> "none"]
SyncShape(kind, f, res) ==
  [kind |-> kind, totalRecords |-> Len(f.records),
   transformed |-> IF kind = "empty" THEN 0 ELSE Len(f.updates),
   transformErrors |-> Len(f.transformErrors), salesforceResults |-> res]

\* variant: dryRun is not looked at
AfterTransformNoDryRun(dry, n) ==
  IF n = 0 THEN "empty" ELSE "update"

\* after the transform step: return for no valid record, return for a dry
\* run, otherwise process the updates
AfterTransform(dry, n) ==
  IF n = 0 THEN "empty" ELSE IF dry THEN "dry" ELSE "update"

NewFlow(sc, dry, recs, upload, key) ==
  [script |-> sc, dryRun |-> dry, records |-> recs, uploadToSassie |-> upload,
   apiKey |-> key, pc |-> "new", updates |-> << >>, transformErrors |-> << >>,
   syncResults |-> NoSync, files |-> {}, extractions |-> 0, sassieData |-> << >>,
   tested |-> "untested", uploads |-> 0, sassieUploadResults |-> "null",
   sassieFailure |-> Absent, error |-> Absent, ret |-> NoSync]

InitWorkflow ==
  /\ SideOff
  /\ flow \in { NewFlow(sc, dry, recs, TRUE, TRUE) :
                  sc \in Scripts, dry \in BOOLEAN, recs \in RecordLists }
  /\ wf = "vimeo"
  /\ updateList = << >>
  /\ batchSize \in 1..MaxBatch
  /\ delayMs \in IF Len(Updates(flow.records)) > batchSize /\ ~flow.dryRun
                 THEN {0, DefaultDelayMs} ELSE {DefaultDelayMs}
  /\ pc = "off"
  /\ i = 0
  /\ task = << >>
  /\ successfulUpdates = << >>
  /\ failedUpdates = << >>
  /\ result = NoResult
  /\ tokenReqs = 0
  /\ tokensGranted = 0
  /\ initialToken = NoToken
  /\ initialResp = Absent
  /\ probeFailed = FALSE
  /\ patches = {}
  /\ queries = {}
  /\ pauses = 0
  /\ stats = NoStats
  /\ auth = [inst \in {"jwt", "pwd"} |-> [accessToken |-> NoToken, instanceUrl |-> Absent]]
  /\ privateKey \in {"pem", Absent}
  /\ authCall = NoCall
  /\ CsvOff
  /\ HttpOff

\* the script throws: the catch block logs and rethrows
Throw(f, step) == flow' = [f EXCEPT !.pc = "threw", !.error = step]

\* the script returns
Return(f, ret) == flow' = [f EXCEPT !.pc = "returned", !.ret = ret]

\* the script up to await auth.authenticate()
StartWorkflow ==
  /\ flow.pc = "new"
  /\ flow' = [flow EXCEPT !.pc = "authenticating"]
  /\ pc' = "start"
  /\ UNCHANGED <<lookup, interactive, runs, httpVars, csvVars, privateKey, authCall, stats, pauses, wf, updateList,
                 batchSize, delayMs, i, auth, task, successfulUpdates, failedUpdates,
                 result, tokenReqs, tokensGranted, initialToken, initialResp,
                 probeFailed, patches, queries>>

\* authenticate() has returned or thrown; processVimeoExport starts to read
WorkflowAuthenticated ==
  /\ flow.pc = "authenticating"
  /\ pc \in {"ready", "aborted"}
  /\ IF pc = "aborted" THEN Throw(flow, "authenticate")
     ELSE flow' = [flow EXCEPT !.pc = "reading"]
  /\ UNCHANGED <<lookup, interactive, runs, httpVars, csvVars, privateKey, authCall, stats, pauses, wf, updateList,
                 batchSize, delayMs, pc, i, auth, task, successfulUpdates, failedUpdates,
                 result, tokenReqs, tokensGranted, initialToken, initialResp,
                 probeFailed, patches, queries>>

\* readCSV / readJSON settles, then the transform loop and what follows it
\* up to the next await
ReadFileSettles ==
  /\ flow.pc = "reading"
  /\ \E read \in BOOLEAN :
       LET f == [flow EXCEPT !.updates = Updates(flow.records),
                             !.transformErrors = TransformErrors(flow.records)]
           next == AfterTransform(flow.dryRun, Len(f.updates)) IN
       IF ~read
       THEN Throw(flow, "read") /\ UNCHANGED <<updateList, task>>
       ELSE IF next = "update"
       THEN /\ flow' = [f EXCEPT !.pc = "updating"]
            /\ updateList' = [k \in 1..Len(f.updates) |-> RequestAt(wf, k)]
            /\ task' = [k \in 1..Len(f.updates) |-> NewTask]
       ELSE /\ flow' = [f EXCEPT !.pc = "synced", !.syncResults = SyncShape(next, f, NoResult)]
            /\ UNCHANGED <<updateList, task>>
  /\ UNCHANGED <<lookup, interactive, runs, httpVars, csvVars, privateKey, authCall, stats, pauses, wf,
                 batchSize, delayMs, pc, i, auth, successfulUpdates, failedUpdates,
                 result, tokenReqs, tokensGranted, initialToken, initialResp,
                 probeFailed, patches, queries>>

\* processWorkOrderUpdates has returned or rejected
WorkOrderUpdatesReturn ==
  /\ flow.pc = "updating"
  /\ pc \in {"returned", "rejected"}
  /\ IF pc = "rejected" THEN Throw(flow, "update")
     ELSE flow' = [flow EXCEPT !.pc = "exporting"]
  /\ UNCHANGED <<lookup, interactive, runs, httpVars, csvVars, privateKey, authCall, stats, pauses, wf, updateList,
                 batchSize, delayMs, pc, i, auth, task, successfulUpdates, failedUpdates,
                 result, tokenReqs, tokensGranted, initialToken, initialResp,
                 probeFailed, patches, queries>>

\* the files exportUpdateResults writes for a result
ExportFiles(res) ==
  (IF res.successful > 0 THEN {"successful"} ELSE {})
    \cup (IF res.failed > 0 THEN {"failed"} ELSE {}) \cup {"summary"}

\* exportUpdateResults settles and processVimeoExport returns
ExportResultsSettle ==
  /\ flow.pc = "exporting"
  /\ \E written \in BOOLEAN :
       IF ~written THEN Throw(flow, "export")
       ELSE flow' = [flow EXCEPT !.pc = "synced", !.files = ExportFiles(result),
                                 !.syncResults = SyncShape("full", flow, result)]
  /\ UNCHANGED <<lookup, interactive, runs, httpVars, csvVars, privateKey, authCall, stats, pauses, wf, updateList,
                 batchSize, delayMs, pc, i, auth, task, successfulUpdates, failedUpdates,
                 result, tokenReqs, tokensGranted, initialToken, initialResp,
                 probeFailed, patches, queries>>

\* what the caller does with the value processVimeoExport resolved to:
\* reading salesforceResults.successful of a value without
\* salesforceResults throws a TypeError
AfterSync ==
  /\ flow.pc = "synced"
  /\ IF flow.script = "processVimeoExport"
     THEN Return(flow, flow.syncResults)
     ELSE IF flow.dryRun
     THEN Return(flow, [dryRun |-> TRUE, syncResults |-> flow.syncResults])
     ELSE IF flow.syncResults.salesforceResults = NoResult
     THEN Throw(flow, "TypeError")
     ELSE IF flow.syncResults.salesforceResults.successful = 0
     THEN Return(flow, [syncResults |-> flow.syncResults, sassieData |-> << >>,
                        sassieUploadResults |-> "null"])
     ELSE flow' = [flow EXCEPT !.pc = "listing"]
  /\ UNCHANGED <<lookup, interactive, runs, httpVars, csvVars, privateKey, authCall, stats, pauses, wf, updateList,
                 batchSize, delayMs, pc, i, auth, task, successfulUpdates, failedUpdates,
                 result, tokenReqs, tokensGranted, initialToken, initialResp,
                 probeFailed, patches, queries>>

NextWorkflow ==
  \/ StartWorkflow
  \/ Authenticate
  \/ AuthenticateSettles
  \/ WorkflowAuthenticated
  \/ ReadFileSettles
  \/ flow.pc = "updating" /\ ProcessUpdates
  \/ PromiseAllSettles
  \/ DelayElapsed
  \/ \E k \in 1..N : ValidateSessionSettles(k)
  \/ \E k \in 1..N : TokenRequestSettles(k)
  \/ \E k \in 1..N : QuerySettles(k)
  \/ WorkOrderUpdatesReturn
  \/ ExportResultsSettle
  \/ AfterSync

SpecWorkflow == InitWorkflow /\ [][NextWorkflow]_vars


\* ------------------------------------- extraction and upload of the SASSIE ids
\* runCompleteWorkflow from the moment processVimeoExport has resolved with
\* at least one successful update
CountedResults(n, su) == [totalProcessed |-> n, successful |-> su, failed |-> n - su]

InitSassie ==
  /\ SideOff
  /\ \E sc \in Scripts \ {"processVimeoExport"}, recs \in RecordLists,
        upload \in BOOLEAN, key \in BOOLEAN :
       LET f == [NewFlow(sc, FALSE, recs, upload, key) EXCEPT
                   !.updates = Updates(recs), !.transformErrors = TransformErrors(recs)] IN
       \E su \in 1..Len(f.updates) :
         LET res == CountedResults(Len(f.updates), su) IN
         flow = [f EXCEPT !.pc = "synced", !.files = ExportFiles(res),
                          !.syncResults = SyncShape("full", f, res)]
  /\ UpdaterOff
  /\ AuthOff
  /\ CsvOff
  /\ HttpOff

\* what the script returns at its end
WorkflowResults(f) ==
  [syncResults |-> f.syncResults, sassieData |-> f.sassieData,
   sassieUploadResults |-> f.sassieUploadResults]

\* variant: the catch block of the upload step rethrows
SassieCatchRethrows(f, step) == Throw([f EXCEPT !.sassieFailure = step], step)

\* the catch block of the upload step logs the error, and the workflow
\* goes on to its summary and returns; a failed connection test skips the
\* upload the same way
SassieCatch(f, step) ==
  LET g == [f EXCEPT !.sassieFailure = step] IN Return(g, WorkflowResults(g))

\* fs.readdir settles: the most recent successful-updates file is looked for
ReaddirSettles ==
  /\ flow.pc = "listing"
  /\ \E listing \in {"found", "none", "throws"} :
       IF listing = "found" THEN flow' = [flow EXCEPT !.pc = "extracting", !.extractions = 1]
       ELSE Throw(flow, "readdir")
  /\ UNCHANGED <<lookup, interactive, runs, httpVars, csvVars, updaterVars>>

\* extractSassieIds settles with one entry for each row that carries a
\* sassieId; the complete workflow then constructs the uploader and starts
\* the connection test
ExtractSettles ==
  /\ flow.pc = "extracting"
  /\ \E n \in -1..flow.syncResults.salesforceResults.successful :
       LET f == [flow EXCEPT !.sassieData = [j \in 1..n |-> j]] IN
       IF n = -1 THEN Throw(flow, "extract")
       ELSE IF flow.script = "vimeo-sassie-workflow"
       THEN Return(f, [syncResults |-> f.syncResults, sassieData |-> f.sassieData])
       ELSE IF ~(flow.uploadToSassie /\ n > 0) THEN Return(f, WorkflowResults(f))
       ELSE IF ~flow.apiKey THEN SassieCatch(f, "constructor")
       ELSE flow' = [f EXCEPT !.pc = "testing"]
  /\ UNCHANGED <<lookup, interactive, runs, httpVars, csvVars, updaterVars>>

\* uploader.testConnection() settles; uploadBatch is called when it is true
TestConnectionSettles ==
  /\ flow.pc = "testing"
  /\ \E connectionTest \in BOOLEAN :
       IF ~connectionTest
       THEN SassieCatch([flow EXCEPT !.tested = "failed"], "connection")
       ELSE flow' = [flow EXCEPT !.tested = "passed", !.pc = "uploading", !.uploads = 1]
  /\ UNCHANGED <<lookup, interactive, runs, httpVars, csvVars, updaterVars>>

\* uploader.uploadBatch settles; the results file is written
UploadBatchSettles ==
  /\ flow.pc = "uploading"
  /\ \E uploaded \in BOOLEAN :
       IF ~uploaded THEN SassieCatch(flow, "upload")
       ELSE flow' = [flow EXCEPT !.pc = "saving", !.sassieUploadResults = "results"]
  /\ UNCHANGED <<lookup, interactive, runs, httpVars, csvVars, updaterVars>>

\* fs.writeFile of the upload results settles
WriteResultsSettles ==
  /\ flow.pc = "saving"
  /\ \E saved \in BOOLEAN :
       IF ~saved THEN SassieCatch(flow, "save")
       ELSE Return(flow, WorkflowResults(flow))
  /\ UNCHANGED <<lookup, interactive, runs, httpVars, csvVars, updaterVars>>

NextSassie ==
  \/ AfterSync
  \/ ReaddirSettles
  \/ ExtractSettles
  \/ TestConnectionSettles
  \/ UploadBatchSettles
  \/ WriteResultsSettles

SpecSassie == InitSassie /\ [][NextSassie]_vars


\* ==================================================================== claims
\* positions of a list that hold an outcome of request k
OutcomesOf(list, k) == { j \in 1..Len(list) : list[j].idx = k }
Count(k) == Cardinality(OutcomesOf(successfulUpdates, k))
            + Cardinality(OutcomesOf(failedUpdates, k))
\* the group request k belongs to, counted from 0
GroupOf(k) == (k - 1) \div batchSize

\* C1: when the batch operation has returned, every request of the list has
\* exactly one outcome, in exactly one of the two lists; the lists together
\* hold exactly N outcomes and are the lists of the returned result.
C1_ExactlyOneOutcome ==
  pc = "returned" =>
    /\ Len(successfulUpdates) + Len(failedUpdates) = N
    /\ \A k \in 1..N : Count(k) = 1
    /\ \A j \in 1..Len(successfulUpdates) : successfulUpdates[j].success
    /\ \A j \in 1..Len(failedUpdates) : ~failedUpdates[j].success
    /\ result.successfulUpdates = successfulUpdates
    /\ result.failedUpdates = failedUpdates

C1_Witness ==
  /\ pc = "returned"
  /\ N >= 2
  /\ batchSize < N
  /\ Len(successfulUpdates) > 0
  /\ Len(failedUpdates) > 0

C3_FailureContained ==
  /\ pc # "rejected"
  /\ \A k \in 1..N :
       /\ task[k].st # "rejected"
       /\ (task[k].st = "done" /\ task[k].patched # "ok")
            => Cardinality(OutcomesOf(failedUpdates, k)) = 1
  /\ pc = "returned" =>
       /\ \A k \in 1..N : task[k].st = "done"
       /\ result.totalProcessed = N
       /\ result.failed = Len(failedUpdates)

C3_Witness ==
  /\ pc = "returned"
  /\ N >= 2
  /\ GroupOf(1) < GroupOf(N)
  /\ task[1].patched \in {"http", "noresp"}
  /\ \A k \in 2..N : task[k].patched = "ok"

\* C4: at every moment of the run and for every order of completion, each
\* settled update has exactly one outcome in the lists and each unsettled one
\* has none: no append is lost, overwritten or duplicated.
C4_NoLostAppend ==
  /\ \A k \in 1..N : Count(k) = (IF task[k].st = "done" THEN 1 ELSE 0)
  /\ Len(successfulUpdates) + Len(failedUpdates)
       = Cardinality({ k \in 1..N : task[k].st = "done" })

C4_Witness ==
  /\ pc = "returned"
  /\ \E a, b \in 1..Len(failedUpdates) :
       /\ a < b
       /\ failedUpdates[a].idx > failedUpdates[b].idx
       /\ GroupOf(failedUpdates[a].idx) = GroupOf(failedUpdates[b].idx)

\* C5: a work order whose lookup returned zero records gets no PATCH request
\* and exactly one outcome, in failedUpdates only, with success false,
\* recordId null and status NOT_FOUND.
C5_NotFound ==
  \A k \in 1..N :
    task[k].lookup = "none" =>
      /\ \A p \in patches : p.idx # k
      /\ OutcomesOf(successfulUpdates, k) = {}
      /\ Cardinality(OutcomesOf(failedUpdates, k)) = 1
      /\ \A j \in OutcomesOf(failedUpdates, k) :
           /\ failedUpdates[j].success = FALSE
           /\ failedUpdates[j].recordId = "null"
           /\ failedUpdates[j].status = "NOT_FOUND"

C5_Witness ==
  /\ pc = "returned"
  /\ \E k \in 1..N : task[k].lookup = "none"

\* C6: a work order whose lookup resolved to a record and whose PATCH request
\* did not fail has an outcome in successfulUpdates with success true and
\* the Id of the found record.
C6_ResolvedWorkOrderSucceeds ==
  \A k \in 1..N :
    (task[k].st = "done" /\ task[k].lookup = "found"
       /\ task[k].patched \notin {"http", "noresp"})
      => \E j \in OutcomesOf(successfulUpdates, k) :
           /\ successfulUpdates[j].success
           /\ successfulUpdates[j].recordId = IdOf(updateList[k].workOrderNumber)

\* C7: an update whose PATCH request succeeded has exactly one outcome, in
\* successfulUpdates only, with success true, the recordId, objectType,
\* updateData and metadata of the request and the status of the response.
C7_SuccessOutcome ==
  \A k \in 1..N :
    task[k].patched = "ok" =>
      /\ OutcomesOf(failedUpdates, k) = {}
      /\ Cardinality(OutcomesOf(successfulUpdates, k)) = 1
      /\ \A j \in OutcomesOf(successfulUpdates, k) :
           LET o == successfulUpdates[j] IN
           /\ o.success = TRUE
           /\ o.recordId = updateList[k].recordId
           /\ o.objectType = updateList[k].objectType
           /\ o.updateData = updateList[k].updateData
           /\ o.metadata = (IF updateList[k].metadata = Absent THEN "{}"
                            ELSE updateList[k].metadata)
           /\ o.status = "204"

C7_Witness ==
  \E k \in 1..N : task[k].patched = "ok" /\ task[k].st = "done"
                  /\ updateList[k].recordId = "001xx"

\* C8: updateRecord never rejects: a call that settled without a successful
\* PATCH has an outcome in failedUpdates only, with success false and with
\* the HTTP status of the failed response, or 'UNKNOWN' when the error
\* carried no response.
C8_ExpectedStatus(k) ==
  IF task[k].patched = "http" \/ (A = "jwt" /\ task[k].reauth = "http")
  THEN "400" ELSE "UNKNOWN"

C8_UpdateRecordNeverRejects ==
  ItemOp(wf) = "updateRecord" =>
    \A k \in 1..N :
      /\ task[k].st # "rejected"
      /\ (task[k].st = "done" /\ task[k].patched # "ok") =>
           /\ OutcomesOf(successfulUpdates, k) = {}
           /\ \E j \in OutcomesOf(failedUpdates, k) :
                /\ failedUpdates[j].success = FALSE
                /\ failedUpdates[j].status = C8_ExpectedStatus(k)

C8_Witness ==
  /\ ItemOp(wf) = "updateRecord"
  /\ \E k \in 1..N : task[k].st = "done" /\ task[k].reauth \in {"empty", "http", "noresp"}
  /\ \E k \in 1..N : task[k].st = "done" /\ task[k].patched = "http"

\* C9: the calls of authenticate that throw
InitialAuthFails ==
  initialResp \in {"http", "noresp"} \/ (InitialAuth(wf) = "jwt" /\ initialResp = "empty")
ReauthFails(k) ==
  task[k].reauth \in {"http", "noresp"} \/ (A = "jwt" /\ task[k].reauth = "empty")

\* C9 (as claimed): an authentication failure at any point aborts the
\* workflow and is never turned into a per-item failure outcome.
C9_AuthFailureAlwaysFatal ==
  /\ InitialAuthFails => pc = "aborted"
  /\ \A k \in 1..N :
       ReauthFails(k) => (pc \in {"aborted", "rejected"} /\ OutcomesOf(failedUpdates, k) = {})

\* C9 (amended): a failure of the initial authenticate call aborts the
\* workflow before any update is issued; a failure of a re-authentication
\* inside an update call is recorded as that item's failure outcome and the
\* batch carries on.
C9_InitialFatalReauthRecorded ==
  /\ InitialAuthFails => pc = "aborted"
  /\ pc = "aborted" =>
       /\ \A k \in 1..N : task[k].st = "idle"
       /\ successfulUpdates = << >> /\ failedUpdates = << >>
       /\ patches = {} /\ queries = {}
       /\ result = NoResult
  /\ \A k \in 1..N :
       ReauthFails(k) =>
         /\ task[k].st = "done"
         /\ Cardinality(OutcomesOf(failedUpdates, k)) = 1
         /\ pc \in {"awaiting", "delay", "returned"}

C9_Witness ==
  /\ pc = "returned"
  /\ \E k \in 1..N : ReauthFails(k)
  /\ Len(successfulUpdates) > 0

\* C10: while no probe has reported the session invalid, the token of the
\* initial authenticate call is the bearer of every request of the updater
\* and no further token request is sent.
C10_InitialTokenReused ==
  (initialToken # NoToken /\ ~probeFailed) =>
    /\ tokenReqs = 1
    /\ \A p \in patches \cup queries : p.bearer = initialToken

\* every outcome of the list old is at its place in the list new
Kept(old, new) ==
  /\ Len(old) <= Len(new)
  /\ \A j \in 1..Len(old) : new[j] = old[j]

\* C11 (as claimed): an outcome once appended stays in its list across every
\* later operation on the updater; only a step of clearHistory removes it.
C11_RemovedOnlyByClearHistory ==
  [][ \/ Kept(successfulUpdates, successfulUpdates') /\ Kept(failedUpdates, failedUpdates')
      \/ ClearHistory ]_vars

\* C11 (amended): an outcome once appended stays in its list across every
\* update call and getStats; it is removed only by clearHistory or by the
\* start of a batch run, which resets both lists.
C11_RemovedByClearOrRunStart ==
  [][ \/ Kept(successfulUpdates, successfulUpdates') /\ Kept(failedUpdates, failedUpdates')
      \/ ClearHistory
      \/ ProcessUpdates ]_vars

\* a call made on its own left an outcome that getStats counted, and a batch
\* run of two updates has returned after it
C11_Witness ==
  /\ pc = "returned"
  /\ N >= 2
  /\ stats # NoStats
  /\ stats.totalProcessed = 1
  /\ Len(successfulUpdates) + Len(failedUpdates) = N

\* C12: a batch run over an empty list sends no request, returns zero
\* outcomes with all three counts 0, and its success rate is a number: it is
\* not the quotient 0/0.
C12_EmptyRunRate ==
  (pc = "returned" /\ N = 0) =>
    /\ patches = {} /\ queries = {}
    /\ successfulUpdates = << >> /\ failedUpdates = << >>
    /\ result.totalProcessed = 0 /\ result.successful = 0 /\ result.failed = 0
    /\ ~result.successRate.nan

\* groups of a run over n requests with batch size b: ceil(n / b)
Groups(n, b) == (n + b - 1) \div b

\* C13: with a delay above 0, a pause begins only when its group and all
\* earlier ones have settled, a further group follows and none of its
\* updates has been issued; while group g (from 0) is awaited g pauses have
\* been made, and a returned run over N > 0 requests has made
\* ceil(N / batchSize) - 1 pauses, none of them after the last group.
C13_PauseBetweenGroups ==
  /\ pc = "delay" =>
       /\ delayMs > 0
       /\ i + batchSize < N
       /\ \A k \in 1..N : IF k <= i + batchSize THEN task[k].st = "done"
                                                ELSE task[k].st = "idle"
       /\ pauses = i \div batchSize + 1
  /\ (pc = "awaiting" /\ delayMs > 0) => pauses = i \div batchSize
  /\ (pc = "returned" /\ N > 0 /\ delayMs > 0) => pauses = Groups(N, batchSize) - 1
  /\ delayMs = 0 => pauses = 0

C13_Witness ==
  /\ pc = "returned"
  /\ delayMs > 0
  /\ Groups(N, batchSize) >= 2
  /\ pauses = Groups(N, batchSize) - 1

NeedsQuoting(v) == \E j \in 1..Len(v) : v[j] \in {Comma, Quote, LF, CR}

\* C15: a field that holds a comma, a double quote or a newline, escaped and
\* read back through the line reader, comes back as exactly one line of
\* exactly one value, equal to the field character for character.
C15_RoundTrip ==
  (csvPc = "read" /\ NeedsQuoting(value)) => values = << << value >> >>

QuoteCount(v) == Cardinality({ j \in 1..Len(v) : v[j] = Quote })

\* a quoted interior with each pair of quotes read as one quote
RECURSIVE Undoubled(_)
Undoubled(s) ==
  IF s = << >> THEN << >>
  ELSE IF Len(s) >= 2 /\ s[1] = Quote /\ s[2] = Quote
       THEN <<Quote>> \o Undoubled(SubSeq(s, 3, Len(s)))
  ELSE <<Head(s)>> \o Undoubled(Tail(s))

\* C16: the output of escapeCSVValue is the field between two double quotes
\* with every double quote of the field doubled if the field holds a comma,
\* a double quote or a newline, and is the field itself, unquoted, if it
\* holds none of them.
C16_EscapeRule ==
  csvPc \in {"escaped", "read"} =>
    IF NeedsQuoting(value)
    THEN /\ Len(content) = Len(value) + QuoteCount(value) + 2
         /\ content[1] = Quote
         /\ content[Len(content)] = Quote
         /\ QuoteCount(content) = 2 * QuoteCount(value) + 2
         /\ Undoubled(SubSeq(content, 2, Len(content) - 1)) = value
    ELSE content = value

C16_Witness ==
  /\ csvPc = "escaped"
  /\ includes(value, Quote)
  /\ includes(value, Comma)
  /\ Len(content) = Len(value) + 3

\* a CSV text read with its quotes honoured: the separators that stand
\* outside quotes, and the pieces between them
Cuts(t, sep) ==
  { j \in 1..Len(t) : t[j] = sep /\ QuoteCount(SubSeq(t, 1, j - 1)) % 2 = 0 }
CutAt(t, sep, k) ==
  IF k = 0 THEN 0
  ELSE IF k > Cardinality(Cuts(t, sep)) THEN Len(t) + 1
  ELSE CHOOSE j \in Cuts(t, sep) : Cardinality({ x \in Cuts(t, sep) : x < j }) = k - 1
Pieces(t, sep) ==
  [ k \in 1..(Cardinality(Cuts(t, sep)) + 1) |->
      SubSeq(t, CutAt(t, sep, k - 1) + 1, CutAt(t, sep, k) - 1) ]
Unescaped(f) ==
  IF f # << >> /\ Head(f) = Quote THEN Undoubled(SubSeq(f, 2, Len(f) - 1)) ELSE f

\* the row text holds exactly the given cells, in their order
RowHolds(row, cells) ==
  IF Len(cells) = 0 THEN row = << >>
  ELSE /\ Len(Pieces(row, Comma)) = Len(cells)
       /\ \A j \in 1..Len(cells) : Unescaped(Pieces(row, Comma)[j]) = cells[j]

\* the text is a header row of the columns followed by one row per record,
\* in input order, each holding one field per column
HeaderAndRows(text, d, headers) ==
  /\ Len(Pieces(text, LF)) = Len(d) + 1
  /\ RowHolds(Pieces(text, LF)[1], [j \in 1..Len(headers) |-> Word(headers[j])])
  /\ \A r \in 1..Len(d) :
       RowHolds(Pieces(text, LF)[r + 1], [j \in 1..Len(headers) |-> Cell(d[r], headers[j])])

\* C17 (as claimed): for every sequence of n records and every explicit or
\* inferred list of c columns the text is one header row followed by
\* exactly n data rows in input order, each of exactly c fields.
C17_HeaderAndRowsAlways ==
  (csvPc = "written" /\ (columns # Absent \/ Len(data) > 0)) =>
    HeaderAndRows(content, data, IF columns # Absent THEN columns ELSE ObjectKeys(data[1]))

\* C17 (amended): for every non-empty sequence of n records the text is one
\* header row followed by exactly n data rows in input order, each of
\* exactly c fields; for an empty sequence the text is empty and has no
\* header row.
C17_HeaderAndRowsNonEmpty ==
  csvPc = "written" =>
    IF Len(data) > 0
    THEN HeaderAndRows(content, data, IF columns # Absent THEN columns ELSE ObjectKeys(data[1]))
    ELSE content = << >>

C17_Witness ==
  /\ csvPc = "written"
  /\ Len(data) = 2
  /\ columns = Absent
  /\ includes(data[1].recordId.s, LF)
  /\ data[1].metadata.t = "object"
  /\ data[2].metadata.t = "null"

\* the records whose metadata is an object that carries a sassieId
CarriesId(rec) == rec.metadata.t = "object" /\ rec.metadata.sassieId # Absent
HasMetadataColumn ==
  columns = Absent \/ \E j \in 1..Len(columns) : columns[j] = "metadata"

\* C18: the extraction over a file with a metadata column does not abort,
\* whatever the metadata of its rows, and returns exactly one entry for each
\* row whose metadata carries a sassieId, in row order; the rows whose
\* metadata is not valid JSON yield none.
C18_RowsIndependent ==
  (csvPc = "extracted" /\ Len(data) > 0 /\ HasMetadataColumn) =>
    /\ ~values.threw
    /\ Len(values.sassieData) = Len(SelectSeq(data, CarriesId))
    /\ \A j \in 1..Len(values.sassieData) :
         /\ values.sassieData[j].sassieId = SelectSeq(data, CarriesId)[j].metadata.sassieId
         /\ values.sassieData[j].workOrderName
              = SelectSeq(data, CarriesId)[j].metadata.workOrderName

\* what a finished authenticate call did with its response
C19_Settled ==
  LET c == authCall IN
  /\ c.resp = "ok" =>
       /\ c.st = "returned"
       /\ c.ret.accessToken # NoToken /\ c.ret.instanceUrl # Absent
       /\ auth[c.inst].accessToken = c.ret.accessToken
       /\ auth[c.inst].instanceUrl = c.ret.instanceUrl
  /\ c.resp \in {"http", "noresp"} =>
       /\ c.st = "threw"
       /\ auth[c.inst] = c.before

ExpectedStatus ==
  IF request.method = "OPTIONS" THEN 200
  ELSE IF request.method # "POST" THEN 405
  ELSE IF NoUpdates(request) \/ credentials = "incomplete" THEN 400
  ELSE IF thrown # Absent THEN 500
  ELSE 200

ExpectedSummary ==
  IF ExpectedStatus = 200 /\ request.method = "POST"
  THEN [totalProcessed |-> N, successful |-> Len(successfulUpdates),
        failed |-> Len(failedUpdates), successRate |-> SuccessRate(Len(successfulUpdates), N)]
  ELSE NoSummary

\* the handler never sends a second response, and the response it sends
\* carries the expected status
C20_StatusOfResponse ==
  /\ Len(responses) <= 1
  /\ handlerPc = "responded" <=> Len(responses) = 1
  /\ Len(responses) = 1 =>
       /\ responses[1].status = ExpectedStatus
       /\ responses[1].summary = ExpectedSummary

\* C20: every HTTP request to an update handler receives exactly one
\* response: a response is eventually sent, no second one ever is, and it
\* is 200 for OPTIONS, 405 for another non-POST method, 400 for no usable
\* updates or an incomplete credential configuration, 500 when a step
\* throws, and 200 with the counts otherwise.
C20_ExactlyOneResponse ==
  /\ []C20_StatusOfResponse
  /\ <>(Len(responses) = 1)

\* C21: for every update list and every numeric batchSize, if every HTTP
\* call eventually settles, a batch operation that has started eventually
\* returns its result.
C21_BatchReturns == (pc = "awaiting") ~> (pc = "returned")

\* update calls issued and not yet settled
InFlight == Cardinality({ k \in 1..N : task[k].st \notin {"idle", "done", "rejected"} })

\* C22: at every moment of a batch run, the number of update calls that
\* have been issued and have not yet settled is at most the batch size.
C22_AtMostBatchSize ==
  pc \in {"awaiting", "delay", "returned", "rejected"} => InFlight <= batchSize

\* a group after the first is in flight and fills the batch size
C22_Witness ==
  /\ pc = "awaiting"
  /\ i > 0
  /\ InFlight = batchSize

\* the script is one of the two runCompleteWorkflow
IsCompleteWorkflow == flow.script \in {"vimeo-sassie-workflow", "complete-vimeo-sassie-workflow"}

\* C23: with dryRun true, processVimeoExport and runCompleteWorkflow issue
\* no lookup query and no PATCH request, write no export file, extract no
\* SASSIE ids and upload nothing; they return after the transform step.
C23_DryRunTouchesNothing ==
  flow.dryRun =>
    /\ queries = {} /\ patches = {}
    /\ flow.files = {}
    /\ flow.extractions = 0 /\ flow.uploads = 0
    /\ flow.pc \in {"new", "authenticating", "reading", "synced", "returned", "threw"}
    /\ flow.pc \in {"synced", "returned"} => flow.syncResults.kind \in {"dry", "empty"}
    /\ flow.pc = "threw" => flow.error \in {"authenticate", "read"}

\* a dry run of runCompleteWorkflow over a file with a valid record has returned
C23_Witness ==
  /\ flow.dryRun
  /\ IsCompleteWorkflow
  /\ flow.pc = "returned"
  /\ flow.syncResults.kind = "dry"
  /\ flow.syncResults.transformed > 0

\* the sync step of the script has ended with zero successful updates
ZeroSuccessful ==
  /\ flow.syncResults # NoSync
  /\ flow.pc # "synced"
  /\ \/ flow.syncResults.kind = "empty"
     \/ flow.syncResults.kind = "full" /\ flow.syncResults.salesforceResults.successful = 0

\* C24: whenever a non-dry run of runCompleteWorkflow ends its sync step
\* with zero successful updates (every update failed, or no record could be
\* transformed), it returns normally with sassieData empty and performs no
\* extraction and no SASSIE upload.
C24_ZeroSuccessfulReturns ==
  IsCompleteWorkflow /\ ~flow.dryRun /\ ZeroSuccessful =>
    /\ flow.pc = "returned"
    /\ flow.ret.sassieData = << >>
    /\ flow.extractions = 0 /\ flow.uploads = 0

\* records r of the file that are in the list l of positions
Occurrences(l, r) == Cardinality({ j \in 1..Len(l) : l[j] = r })

\* C26: in processVimeoExport every input record is either transformed
\* into exactly one update request or recorded in transformErrors, never
\* both and never neither; a record without the work-order identifier
\* never causes a lookup or update call and never aborts the run.
C26_TransformedOrRecorded ==
  flow.pc \notin {"new", "authenticating", "reading"} /\ flow.error \notin {"authenticate", "read"} =>
    /\ \A r \in 1..Len(flow.records) :
         Occurrences(flow.updates, r) + Occurrences(flow.transformErrors, r) = 1
    /\ \A r \in 1..Len(flow.records) :
         flow.records[r] = "noid" => Occurrences(flow.updates, r) = 0
    /\ N <= Len(flow.updates)
    /\ \A q \in queries \cup patches : q.idx \in 1..Len(flow.updates)
    /\ flow.syncResults # NoSync =>
         /\ flow.syncResults.transformErrors = Len(flow.transformErrors)
         /\ flow.syncResults.transformed + flow.syncResults.transformErrors
              = flow.syncResults.totalRecords
    /\ flow.pc = "threw" => flow.error \in {"update", "export", "TypeError"}

\* a file with a record without identifier and one with it has been
\* processed: one lookup was sent and the run returned
C26_Witness ==
  /\ flow.script = "processVimeoExport"
  /\ flow.pc = "returned"
  /\ flow.records = << "noid", "id" >>
  /\ flow.syncResults.kind = "full"
  /\ Cardinality(queries) = 1

\* C25: in the complete workflow the SASSIE upload is attempted only after
\* the connection test has succeeded, and a failure of the uploader
\* construction, of the connection test or of the upload step never
\* aborts the workflow: it returns the sync results and the extracted
\* SASSIE data.
C25_UploadAfterTestNeverAborts ==
  /\ flow.uploads > 0 => flow.tested = "passed"
  /\ flow.sassieFailure # Absent =>
       /\ flow.pc = "returned"
       /\ flow.ret.syncResults = flow.syncResults
       /\ flow.ret.sassieData = flow.sassieData
       /\ Len(flow.sassieData) > 0

\* the connection test passed, the upload was attempted and failed, and the
\* workflow has returned
C25_Witness ==
  /\ flow.script = "complete-vimeo-sassie-workflow"
  /\ flow.pc = "returned"
  /\ flow.tested = "passed"
  /\ flow.uploads = 1
  /\ flow.sassieFailure = "upload"

\* whether a settled ensureAuthenticated call found cause to authenticate
C27_Needed == ~HasSession(authCall.before) \/ authCall.probe = "failed"

C28_ListenerClosed ==
  interactive.promise # "pending" => interactive.server = "closed"

\* the outcome of the promise and the event it came from
C28_Outcome ==
  /\ interactive.promise = "resolved" => interactive.exchanged > 0
  /\ interactive.promise = "rejected" =>
       \/ interactive.reason \in {"error", "nocode"} /\ interactive.reason \in interactive.seen
       \/ interactive.reason = "exchange" /\ "code" \in interactive.seen
       \/ interactive.reason = "timeout" /\ interactive.timer = "fired"

\* C28: authenticateInteractive settles exactly once: it resolves after a
\* successful code exchange and rejects on an error callback, a callback
\* without a code, a failed exchange or the timeout timer, and a settled
\* promise never changes; on each of these paths the listener is closed;
\* if no callback ever arrives it eventually rejects with the timeout.
C28_SettlesExactlyOnce ==
  /\ [][interactive.promise # "pending" =>
          /\ interactive'.promise = interactive.promise
          /\ interactive'.reason = interactive.reason]_vars
  /\ [](C28_ListenerClosed /\ C28_Outcome)
  /\ <>(interactive.promise # "pending")
  /\ <>(interactive.callbacks > 0
        \/ (interactive.promise = "rejected" /\ interactive.reason = "timeout"))

\* the promise resolved after an exchange, and the timer has fired since
C28_Witness ==
  /\ interactive.promise = "resolved"
  /\ interactive.timer = "fired"
  /\ interactive.callbacks = 2

\* the outcomes a returned result holds
C29_Outcomes(u) == u.result.successfulUpdates \o u.result.failedUpdates

\* C29: if two batch runs overlap on one updater instance (the second
\* starts while updates of the first are in flight), the result each run
\* returns holds exactly the outcomes of its own requests: one outcome for
\* each request of that run and none of the other run.
C29_OwnOutcomesOnly ==
  runs.overlap =>
    \A r \in 1..Len(runs.run) :
      runs.run[r].pc = "returned" =>
        /\ \A j \in 1..Len(C29_Outcomes(runs.run[r])) : C29_Outcomes(runs.run[r])[j].run = r
        /\ \A k \in 1..runs.run[r].n :
             Cardinality({ j \in 1..Len(C29_Outcomes(runs.run[r])) :
                             C29_Outcomes(runs.run[r])[j].idx = k }) = 1

\* runs started when every earlier run had returned return their own outcomes
C29_SequentialRuns ==
  ~runs.unreturned =>
    \A r \in 1..Len(runs.run) :
      runs.run[r].pc = "returned" =>
        /\ \A j \in 1..Len(C29_Outcomes(runs.run[r])) : C29_Outcomes(runs.run[r])[j].run = r
        /\ Len(C29_Outcomes(runs.run[r])) = runs.run[r].n

\* the literal read from the query of a number
C30_ReadsAs(number) ==
  /\ lookup.literal.st = "closed"
  /\ lookup.literal.val = number
  /\ lookup.literal.end = Len(lookup.escapedNumber) + 1

\* C30: for every work order number, the value lookupWorkOrderByNumber
\* embeds in the quoted literal cannot end that literal early: the literal
\* closes at the quote the query template wrote, and its value is the input
\* string, character for character.
C30_LiteralIsTheNumber ==
  lookup.pc = "read" => C30_ReadsAs(lookup.workOrderNumber)

\* the same for the numbers that hold no backslash
C30_WithoutBackslash ==
  (lookup.pc = "read" /\ ~includes(lookup.workOrderNumber, Backslash)) =>
     C30_ReadsAs(lookup.workOrderNumber)

=============================================================================
